---- MODULE Spec2Model ----
(***************************************************************************)
(* Model of the session registry and the subscription sessions of the     *)
(* Telegram monitor bot (src/telegram-bot/bot.py), of its message decoder  *)
(* and of the console monitor (src/event_monitor.py).                      *)
(*                                                                         *)
(* Scheduling: one asyncio event loop.  Every command handler and every   *)
(* monitor coroutine runs as a task of that loop; a task runs atomically  *)
(* from one await to the next, so each action below is the code between   *)
(* two suspension points of one task.  task.cancel() marks the task; the  *)
(* CancelledError is thrown into the coroutine at its next step, at the   *)
(* await it is suspended on (CancelledError is a BaseException: neither   *)
(* `except Exception` nor `except WebSocketException` catches it).        *)
(*                                                                         *)
(* Collaborators: the subscription API and the event stream answer with   *)
(* any of the outcomes the code distinguishes.  Replies and notifications *)
(* sent to the chat are suspension points that return normally; only the  *)
(* forward of a stream event may raise, since the read loop handles it.   *)
(***************************************************************************)
EXTENDS Integers, Sequences, FiniteSets, Bags, TLC

\* ---------------------------------------------------------------- bounds
MaxCmds == 3      \* commands handled in one run of Spec
MaxTasks == 2     \* monitor tasks created in one run
MaxMsgs == 3      \* frames read by one session in one run of SpecStream
MaxListCmds == 5  \* commands handled in one run of SpecList
MaxListTasks == 3 \* monitor tasks created in one run of SpecList
MaxSignals == 2   \* shutdown signals delivered in one run of SpecMonitor

\* ---------------------------------------------------------------- domains
Chats == {1}
Addresses == {"TKfUiqAGByAHv8nmTzZqK3RxNc4p3yPqGf"}
StartCmds == {"monitor", "monitor_sc", "monitor_allsc"}
NoTask == 0
NoKey == ""

VARIABLES
    active_monitors,   \* chat_id -> ordered dict, a sequence of [key, task]
    tasks,             \* the monitor tasks created so far, by task number
    handlers,          \* the suspended command handlers, a bag of handler records
    issued,            \* the number of commands received so far
    reply,             \* the handler that ended last, with its outcome
    input,             \* the call of a pure function under check: [fn, arg]
    output,            \* what that call returned, NoOutput before it is made
    monitor            \* the EventMonitor process (src/event_monitor.py)

vars == <<active_monitors, tasks, handlers, issued, reply, input, output, monitor>>

\* ------------------------------------------------- the dict of one chat
KeyIn(d, k) == \E j \in 1..Len(d) : d[j].key = k

Lookup(d, k) == d[CHOOSE j \in 1..Len(d) : d[j].key = k].task

\* DictSet that puts a new key in front
DictSet_Front(d, k, t) ==
    IF KeyIn(d, k)
    THEN [j \in 1..Len(d) |-> IF d[j].key = k THEN [key |-> k, task |-> t] ELSE d[j]]
    ELSE <<[key |-> k, task |-> t]>> \o d

\* d[k] = t: a key already present keeps its position (dict insertion order)
DictSet(d, k, t) ==
    IF KeyIn(d, k)
    THEN [j \in 1..Len(d) |-> IF d[j].key = k THEN [key |-> k, task |-> t] ELSE d[j]]
    ELSE Append(d, [key |-> k, task |-> t])

DictDel(d, k) == SelectSeq(d, LAMBDA e : e.key # k)

DictKeys(d) == [j \in 1..Len(d) |-> d[j].key]

\* ------------------------------------------------- active_monitors
HasChat(am, c) == c \in DOMAIN am

AmPut(am, c, d) == [x \in (DOMAIN am) \cup {c} |-> IF x = c THEN d ELSE am[x]]

AmDrop(am, c) == [x \in (DOMAIN am) \ {c} |-> am[x]]

\* chat_id in active_monitors and key in active_monitors[chat_id]
Monitoring(am, c, k) == HasChat(am, c) /\ KeyIn(am[c], k)

\* if chat_id not in active_monitors: active_monitors[chat_id] = {}
\* active_monitors[chat_id][key] = task
Store(am, c, k, t) ==
    AmPut(am, c, DictSet(IF HasChat(am, c) THEN am[c] ELSE <<>>, k, t))

\* Remove that keeps the emptied entry of the chat
Remove_KeepsOwner(am, c, k) == AmPut(am, c, DictDel(am[c], k))

\* del active_monitors[chat_id][key]
\* if not active_monitors[chat_id]: del active_monitors[chat_id]
Remove(am, c, k) ==
    LET d == DictDel(am[c], k)
    IN  IF Len(d) = 0 THEN AmDrop(am, c) ELSE AmPut(am, c, d)

\* the finally block of a monitor coroutine
CleanUp(am, c, k) == IF Monitoring(am, c, k) THEN Remove(am, c, k) ELSE am

\* ------------------------------------------------- keys
ScKey(address) == address \o "_SC"

StartKey(cmd, address) ==
    IF cmd = "monitor" THEN address
    ELSE IF cmd = "monitor_sc" THEN ScKey(address)
    ELSE "GLOBAL_SC"

\* ------------------------------------------------- stream frames
\* JSON values carry their type; a dict is a function from its keys
Str(s) == [t |-> "str", v |-> s]
Num(n) == [t |-> "int", v |-> n]
Obj(o) == [t |-> "obj", v |-> o]
None == [t |-> "none", v |-> 0]
\* a JSON array, and a JSON object given by its items in order
Arr(a) == [t |-> "list", v |-> a]
Items(kv) == [t |-> "items", v |-> kv]

Get(d, k) == IF k \in DOMAIN d THEN d[k] ELSE None

\* Python truth value
Truthy(x) ==
    CASE x.t = "none" -> FALSE
      [] x.t = "str" -> x.v # ""
      [] x.t = "int" -> x.v # 0
      [] OTHER -> DOMAIN x.v # {}

\* the second operand is preferred
Or_SecondFirst(a, b) == IF Truthy(b) THEN b ELSE a

\* Python `a or b`
Or(a, b) == IF Truthy(a) THEN a ELSE b

DigitText == <<"0", "1", "2", "3", "4", "5", "6", "7", "8", "9">>

\* a number as an f-string renders it
RECURSIVE DecimalText(_)
DecimalText(n) ==
    IF n < 0 THEN "-" \o DecimalText(0 - n)
    ELSE IF n < 10 THEN DigitText[n + 1]
    ELSE DecimalText(n \div 10) \o DigitText[(n % 10) + 1]

\* a hashable value as an f-string renders it
Rendered(x) ==
    CASE x.t = "str" -> x.v
      [] x.t = "int" -> DecimalText(x.v)
      [] OTHER -> "None"

AckEvent == [type |-> Str("connected")]
TransferEvent == [ContractType |-> Str("TransferContract"), Amount |-> Num(5)]
TriggerEvent == [ContractType |-> Str("TriggerSmartContract"), From |-> Str("41aa")]
TextAmountEvent == [ContractType |-> Str("TransferContract"), Amount |-> Str("5")]
\* a trigger under the lower-case key, a transfer with a call descriptor at top
\* level, one with a descriptor under EventData and one with an empty descriptor
FilterEvents ==
    [lower |-> [contractType |-> Str("TriggerSmartContract"), From |-> Str("41aa")],
     top |-> [ContractType |-> Str("TransferContract"),
              smartContract |-> Obj([methodSignature |-> Str("deadbeef")])],
     nested |-> [ContractType |-> Str("TransferContract"),
                 EventData |-> Obj([smartContract |-> Obj([methodSignature |-> Str("deadbeef")])])],
     empty |-> [ContractType |-> Str("TransferContract"),
                EventData |-> Obj([smartContract |-> Obj(<<>>)])]]

\* a text frame of the stream: JSON of a dict, or not JSON at all
Frames ==
    {[json |-> FALSE, event |-> <<>>]} \cup
    {[json |-> TRUE, event |-> e] :
        e \in {AckEvent, TransferEvent, TriggerEvent, TextAmountEvent}
              \cup {FilterEvents[k] : k \in DOMAIN FilterEvents}}

DataKeys ==
    {"BlockNumber", "blockNumber", "TransactionID", "TransactionHash", "txHash",
     "From", "from", "To", "to", "ContractType", "contractType"}

\* the elements of a sequence
Range(q) == {q[i] : i \in 1..Len(q)}

\* ------------------------------------------------- address codec
\* a str given by its characters
Text(cs) == [t |-> "text", v |-> cs]

\* the hexadecimal digits bytes.fromhex accepts, with their values
HexVal ==
    "0" :> 0 @@ "1" :> 1 @@ "2" :> 2 @@ "3" :> 3 @@ "4" :> 4 @@ "5" :> 5 @@ "6" :> 6 @@ "7" :> 7 @@
    "8" :> 8 @@ "9" :> 9 @@ "a" :> 10 @@ "b" :> 11 @@ "c" :> 12 @@ "d" :> 13 @@ "e" :> 14 @@ "f" :> 15 @@
    "A" :> 10 @@ "B" :> 11 @@ "C" :> 12 @@ "D" :> 13 @@ "E" :> 14 @@ "F" :> 15

\* s.startswith(p)
StartsWith(s, p) == Len(s) >= Len(p) /\ SubSeq(s, 1, Len(p)) = p

\* s.lstrip(c)
RECURSIVE lstrip(_, _)
lstrip(s, c) == IF s # <<>> /\ Head(s) = c THEN lstrip(Tail(s), c) ELSE s

\* the 41 prefix is added whether it is there or not
Normalize_AlwaysPrefix(hex_address) ==
    LET unprefixed == IF StartsWith(hex_address, <<"0", "x">>) \/ StartsWith(hex_address, <<"0", "X">>)
                      THEN SubSeq(hex_address, 3, Len(hex_address)) ELSE hex_address
        prefixed == <<"4", "1">> \o lstrip(unprefixed, "0")
    IN  IF Len(prefixed) % 2 # 0 THEN <<"0">> \o prefixed ELSE prefixed

\* hex_to_tron_address up to bytes.fromhex: the 0x prefix and the leading
\* zeros are removed, 41 is put in front unless the rest starts with it, and a
\* 0 in front of an odd number of digits
Normalize(hex_address) ==
    LET unprefixed == IF StartsWith(hex_address, <<"0", "x">>) \/ StartsWith(hex_address, <<"0", "X">>)
                      THEN SubSeq(hex_address, 3, Len(hex_address)) ELSE hex_address
        stripped == lstrip(unprefixed, "0")
        prefixed == IF ~StartsWith(stripped, <<"4", "1">>) THEN <<"4", "1">> \o stripped
                    ELSE stripped
    IN  IF Len(prefixed) % 2 # 0 THEN <<"0">> \o prefixed ELSE prefixed

\* bytes.fromhex(s) does not raise
IsHex(s) == Len(s) % 2 = 0 /\ \A i \in 1..Len(s) : s[i] \in DOMAIN HexVal

\* bytes.fromhex(s)
fromhex(s) == [i \in 1..(Len(s) \div 2) |-> 16 * HexVal[s[2 * i - 1]] + HexVal[s[2 * i]]]

\* hashlib.sha256(b).digest(): 32 bytes that depend on every byte of b and on
\* its length. SHA-256 itself is not computed, a fixed digest stands for it
sha256(b) ==
    LET RECURSIVE Mix(_, _)
        Mix(rest, i) == IF rest = <<>> THEN i
                        ELSE (31 * Mix(Tail(rest), i) + Head(rest) + i) % 256
    IN  [i \in 1..32 |-> Mix(b, i + Len(b))]

\* the alphabet of base58
B58Alphabet ==
    <<"1", "2", "3", "4", "5", "6", "7", "8", "9", "A", "B", "C", "D", "E", "F",
      "G", "H", "J", "K", "L", "M", "N", "P", "Q", "R", "S", "T", "U", "V", "W",
      "X", "Y", "Z", "a", "b", "c", "d", "e", "f", "g", "h", "i", "j", "k", "m",
      "n", "o", "p", "q", "r", "s", "t", "u", "v", "w", "x", "y", "z">>

\* the digits in base to of the number with the digits ds in base from, none
\* for zero: the remainders of its repeated long division by to
RECURSIVE ToBase(_, _, _)
ToBase(ds, from, to) ==
    LET RECURSIVE DivMod(_, _)
        DivMod(rest, carry) ==
            IF rest = <<>> THEN [q |-> <<>>, r |-> carry]
            ELSE LET cur == carry * from + Head(rest)
                     below == DivMod(Tail(rest), cur % to)
                 IN  [q |-> <<cur \div to>> \o below.q, r |-> below.r]
    IN  IF \A i \in 1..Len(ds) : ds[i] = 0 THEN <<>>
        ELSE LET dm == DivMod(ds, 0)
             IN  ToBase(dm.q, from, to) \o <<dm.r>>

\* base58.b58encode(v): a 1 for each leading zero byte, then the number
b58encode(v) ==
    LET digits == ToBase(v, 256, 58)
    IN  [i \in 1..(Len(v) - Len(lstrip(v, 0))) |-> "1"]
        \o [i \in 1..Len(digits) |-> B58Alphabet[digits[i] + 1]]

\* the text after the value in the string returned when the conversion fails
Failed(e) == <<" (conversion failed: ", e, ")">>

\* the checksum is taken from one SHA-256
hex_to_tron_address_OneHash(hex_address) ==
    IF hex_address.t # "text"
    THEN Text(<<Rendered(hex_address)>> \o Failed("AttributeError"))
    ELSE LET normalized == Normalize(hex_address.v)
         IN  IF ~IsHex(normalized) THEN Text(normalized \o Failed("ValueError"))
             ELSE LET addr_bytes == fromhex(normalized)
                      checksum == SubSeq(sha256(addr_bytes), 1, 4)
                  IN  Text(b58encode(addr_bytes \o checksum))

\* hex_to_tron_address: a value that is no str has no startswith, and the
\* string formatted when bytes.fromhex raises is the one reassigned on the way
hex_to_tron_address(hex_address) ==
    IF hex_address.t # "text"
    THEN Text(<<Rendered(hex_address)>> \o Failed("AttributeError"))
    ELSE LET normalized == Normalize(hex_address.v)
         IN  IF ~IsHex(normalized) THEN Text(normalized \o Failed("ValueError"))
             ELSE LET addr_bytes == fromhex(normalized)
                      checksum == SubSeq(sha256(sha256(addr_bytes)), 1, 4)
                  IN  Text(b58encode(addr_bytes \o checksum))

\* base58.b58decode(v): a zero byte for each leading 1, then the number
b58decode(v) ==
    LET B58Val == [c \in Range(B58Alphabet) |->
                      CHOOSE n \in 0..57 : B58Alphabet[n + 1] = c]
        digits == [i \in 1..Len(v) |-> B58Val[v[i]]]
    IN  [i \in 1..(Len(v) - Len(lstrip(v, "1"))) |-> 0] \o ToBase(digits, 58, 256)

\* the raw address of a text address: the bytes before the last four when these
\* are the checksum of the bytes before them, no bytes on a mismatch
fromText(text) ==
    LET raw == b58decode(text)
        addr == SubSeq(raw, 1, Len(raw) - 4)
    IN  IF Len(raw) > 4 /\ SubSeq(raw, Len(raw) - 3, Len(raw)) = SubSeq(sha256(sha256(addr)), 1, 4)
        THEN addr ELSE <<>>

\* ------------------------------------------------- format_event
\* a line of the message: its label and the value shown
Line(l, v) == [l |-> l, v |-> v]

\* the statement raises (TypeError, AttributeError)
Raise == Line("raise", None)

\* the characters of the strings of the payloads that start with 4 or T
Chars ==
    "41aa" :>
        <<"4", "1", "a", "a">> @@
    "41zz" :>
        <<"4", "1", "z", "z">> @@
    "41d3682962027e721c5247a9faf7865fe4a71d5438" :>
        <<"4", "1", "d", "3", "6", "8", "2", "9", "6", "2", "0", "2", "7", "e",
          "7", "2", "1", "c", "5", "2", "4", "7", "a", "9", "f", "a", "f", "7",
          "8", "6", "5", "f", "e", "4", "a", "7", "1", "d", "5", "4", "3", "8">> @@
    "TVF2Mp9QY7FEGTnr3DBpFLobA6jguHyMvi" :>
        <<"T", "V", "F", "2", "M", "p", "9", "Q", "Y", "7", "F", "E", "G", "T",
          "n", "r", "3", "D", "B", "p", "F", "L", "o", "b", "A", "6", "j", "g",
          "u", "H", "y", "M", "v", "i">>

\* the strings that start with '41'
HexAddresses == {s \in DOMAIN Chars : StartsWith(Chars[s], <<"4", "1">>)}

\* format_block_link: any value is interpolated
format_block_link(block_number) == Line("Block", block_number)

\* format_tx_link: len(tx_hash) needs a sized value
format_tx_link(tx_hash) ==
    IF tx_hash.t = "int" THEN Raise ELSE Line("TX", tx_hash)

\* hex_to_base58: Base58Check of the bytes of a 41-prefixed hex string; the
\* value itself when it is falsy, does not start with 41, or an exception is
\* caught (no str, or bytes.fromhex raises)
hex_to_base58(hex_address) ==
    IF ~Truthy(hex_address) \/ hex_address.t # "str" THEN hex_address
    ELSE IF hex_address.v \notin HexAddresses THEN hex_address
    ELSE IF ~IsHex(Chars[hex_address.v]) THEN hex_address
    ELSE LET address_bytes == fromhex(Chars[hex_address.v])
             checksum == SubSeq(sha256(sha256(address_bytes)), 1, 4)
         IN  Text(b58encode(address_bytes \o checksum))

\* format_address_link: N/A for a falsy value, address.startswith needs a str
format_address_link(l, address) ==
    IF ~Truthy(address) THEN Line(l, Str("N/A"))
    ELSE IF address.t # "str" THEN Raise
    ELSE IF address.v \in HexAddresses THEN Line(l, hex_to_base58(address))
    ELSE Line(l, address)

\* amount / 1_000_000, shown with six decimals
Trx(sun) == [t |-> "trx", v |-> <<sun \div 1000000, sun % 1000000>>]

\* if amount and amount > 0: only numbers compare with 0
AmountLines(event) ==
    LET amount == Or(Get(event, "Amount"), Get(event, "amount"))
    IN  IF ~Truthy(amount) THEN <<>>
        ELSE IF amount.t # "int" THEN <<Raise>>
        ELSE IF amount.v > 0 THEN <<Line("Amount", Trx(amount.v))>>
        ELSE <<>>

\* the table of format_contract_type, the labels without their emoji
type_mapping ==
    "TransferContract" :> "TRX Transfer" @@
    "TransferAssetContract" :> "TRC10 Token Transfer" @@
    "TriggerSmartContract" :> "Smart Contract Call" @@
    "CreateSmartContract" :> "Create Smart Contract" @@
    "UpdateSettingContract" :> "Update Contract Settings" @@
    "UpdateEnergyLimitContract" :> "Update Energy Limit" @@
    "FreezeBalanceContract" :> "Freeze Balance" @@
    "UnfreezeBalanceContract" :> "Unfreeze Balance" @@
    "FreezeBalanceV2Contract" :> "Freeze Balance (v2)" @@
    "UnfreezeBalanceV2Contract" :> "Unfreeze Balance (v2)" @@
    "WithdrawExpireUnfreezeContract" :> "Withdraw Unfrozen" @@
    "DelegateResourceContract" :> "Delegate Resources" @@
    "UnDelegateResourceContract" :> "Undelegate Resources" @@
    "WithdrawBalanceContract" :> "Withdraw Rewards" @@
    "VoteWitnessContract" :> "Vote for Witness" @@
    "AccountCreateContract" :> "Create Account" @@
    "AccountUpdateContract" :> "Update Account" @@
    "SetAccountIdContract" :> "Set Account ID" @@
    "AccountPermissionUpdateContract" :> "Update Permissions" @@
    "WitnessCreateContract" :> "Create Witness" @@
    "WitnessUpdateContract" :> "Update Witness" @@
    "UpdateBrokerageContract" :> "Update Brokerage" @@
    "AssetIssueContract" :> "Issue Asset" @@
    "UpdateAssetContract" :> "Update Asset" @@
    "ParticipateAssetIssueContract" :> "Buy Asset" @@
    "UnfreezeAssetContract" :> "Unfreeze Asset" @@
    "ProposalCreateContract" :> "Create Proposal" @@
    "ProposalApproveContract" :> "Approve Proposal" @@
    "ProposalDeleteContract" :> "Delete Proposal" @@
    "ExchangeCreateContract" :> "Create Exchange" @@
    "ExchangeInjectContract" :> "Inject to Exchange" @@
    "ExchangeWithdrawContract" :> "Withdraw from Exchange" @@
    "ExchangeTransactionContract" :> "Exchange Transaction" @@
    "MarketSellAssetContract" :> "Market Sell" @@
    "MarketCancelOrderContract" :> "Cancel Market Order" @@
    "ShieldedTransferContract" :> "Shielded Transfer"

\* the text before the raw tag in the label of a tag that is not in the table
GenericPrefix == "Doc "

\* type_mapping[contract_type]: a tag that is not in the table raises KeyError
format_contract_type_Strict(contract_type) ==
    IF contract_type.t = "str" /\ contract_type.v \in DOMAIN type_mapping
    THEN Str(type_mapping[contract_type.v])
    ELSE Raise

\* format_contract_type: type_mapping.get(contract_type, generic label), for
\* a hashable contract_type
format_contract_type(contract_type) ==
    IF contract_type.t = "str" /\ contract_type.v \in DOMAIN type_mapping
    THEN Str(type_mapping[contract_type.v])
    ELSE Str(GenericPrefix \o Rendered(contract_type))

\* format_contract_type looks the type up in a dict: a dict value is unhashable
TypeLines(contract_type) ==
    IF ~Truthy(contract_type) THEN <<>>
    ELSE IF contract_type.t = "obj" THEN <<Raise>>
    ELSE <<Line("Type", format_contract_type(contract_type))>>

FreezeTypes ==
    {"FreezeBalanceContract", "UnfreezeBalanceContract",
     "FreezeBalanceV2Contract", "UnfreezeBalanceV2Contract"}

\* the details shown for delegation, freeze and account creation
DetailLines(event, event_data, contract_type) ==
    IF contract_type.t # "str" THEN <<>>
    ELSE IF contract_type.v \in {"DelegateResourceContract", "UnDelegateResourceContract"}
    THEN IF event_data.t # "obj" THEN <<Raise>>
         ELSE LET balance == IF "balance" \in DOMAIN event_data.v
                             THEN event_data.v.balance ELSE Num(0)
              IN  IF balance.t # "int" THEN <<Raise>>
                  ELSE IF balance.v > 0 THEN <<Line("Delegated", Trx(balance.v))>>
                  ELSE <<>>
    ELSE IF contract_type.v = "VoteWitnessContract"
    THEN IF event_data.t # "obj" THEN <<Raise>> ELSE <<>>
    ELSE IF contract_type.v \in FreezeTypes
    THEN LET frozen_amount == IF "Amount" \in DOMAIN event THEN event.Amount ELSE Num(0)
         IN  IF frozen_amount.t # "int" THEN <<Raise>>
             ELSE IF frozen_amount.v <= 0 THEN <<>>
             ELSE IF event_data.t # "obj" THEN <<Raise>>
             ELSE <<Line("Frozen", Trx(frozen_amount.v))>>
    ELSE IF contract_type.v = "AccountCreateContract" THEN <<Line("New account", None)>>
    ELSE <<>>

\* the strings int() accepts, with their value
IntText == "5" :> 5 @@ "1500000" :> 1500000

\* int(sc_amount) / 1_000_000 without the except branch
TokenAmount_NoFallback(sc_amount) ==
    IF sc_amount.t = "int" THEN Trx(sc_amount.v)
    ELSE IF sc_amount.t = "str" /\ sc_amount.v \in DOMAIN IntText
    THEN Trx(IntText[sc_amount.v])
    ELSE Raise

\* int(sc_amount) / 1_000_000, the raw value when int() raises
TokenAmount(sc_amount) ==
    IF sc_amount.t = "int" THEN Trx(sc_amount.v)
    ELSE IF sc_amount.t = "str" /\ sc_amount.v \in DOMAIN IntText
    THEN Trx(IntText[sc_amount.v])
    ELSE sc_amount

\* all the addresses of the list are shown
ParamAddressLines_All(addresses) ==
    IF ~Truthy(addresses) THEN <<>>
    ELSE IF addresses.t \in {"int", "obj"} THEN <<Raise>>
    ELSE [i \in 1..Len(addresses.v) |-> format_address_link("Param Address", addresses.v[i])]

\* for addr in addresses[:3]: a number or a dict cannot be sliced
ParamAddressLines(addresses) ==
    IF ~Truthy(addresses) THEN <<>>
    ELSE IF addresses.t \in {"int", "obj"} THEN <<Raise>>
    ELSE LET shown == IF Len(addresses.v) < 3 THEN Len(addresses.v) ELSE 3
         IN  [i \in 1..shown |-> format_address_link("Param Address", addresses.v[i])]

\* for key, value in list(params.items())[:3]: a str that looks like an address
\* as a link, another str shorter than 50 as it is, nothing for other values;
\* the dict is given by its items in order, and other values have no items()
ParameterLines(params) ==
    LET RECURSIVE Shown(_)
        Shown(items) ==
            IF items = <<>> THEN <<>>
            ELSE LET key == Head(items).k
                     value == Head(items).v
                 IN  (IF value.t # "str" THEN <<>>
                      ELSE IF /\ value.v \in DOMAIN Chars
                              /\ \/ value.v \in HexAddresses /\ Len(value.v) = 42
                                 \/ Head(Chars[value.v]) = "T" /\ Len(value.v) = 34
                      THEN <<format_address_link("Parameter " \o key, value)>>
                      ELSE IF Len(value.v) < 50 THEN <<Line("Parameter " \o key, value)>>
                      ELSE <<>>) \o Shown(Tail(items))
    IN  IF ~Truthy(params) THEN <<>>
        ELSE IF params.t \in {"str", "int", "list"} THEN <<Raise>>
        ELSE Shown(SubSeq(params.v, 1, IF Len(params.v) < 3 THEN Len(params.v) ELSE 3))

\* the smart contract details: method, parameter addresses, token amount and
\* decoded parameters
ScLines(event, event_data) ==
    IF event_data.t # "obj" THEN <<Raise>>
    ELSE LET sc == Or(Get(event_data.v, "smartContract"),
                      IF "smartContract" \in DOMAIN event
                      THEN event.smartContract ELSE Obj(<<>>))
         IN  IF ~Truthy(sc) THEN <<>>
             ELSE IF sc.t # "obj" THEN <<Raise>>
             ELSE LET method_name == Get(sc.v, "methodName")
                      method_sig == Get(sc.v, "methodSignature")
                      sc_amount == Get(sc.v, "amount")
                  IN  (IF Truthy(method_name) THEN <<Line("Method", method_name)>>
                       ELSE IF Truthy(method_sig) THEN <<Line("Method 0x", method_sig)>>
                       ELSE <<>>)
                      \o ParamAddressLines(Get(sc.v, "addresses"))
                      \o (IF Truthy(sc_amount)
                          THEN <<Line("Token Amount", TokenAmount(sc_amount))>>
                          ELSE <<>>)
                      \o ParameterLines(Get(sc.v, "parameters"))

\* the lines format_event builds for an event with data, a Raise line where a
\* statement raises
MsgLines(event) ==
    LET event_data == IF "EventData" \in DOMAIN event THEN event.EventData ELSE Obj(<<>>)
        block_number == Or(Get(event, "BlockNumber"), Get(event, "blockNumber"))
        tx_hash == Or(Or(Get(event, "TransactionID"), Get(event, "TransactionHash")),
                      Get(event, "txHash"))
        from_addr == Or(Get(event, "From"), Get(event, "from"))
        to_addr == Or(Get(event, "To"), Get(event, "to"))
        contract_type == Or(Get(event, "ContractType"), Get(event, "contractType"))
    IN  <<Line("New Transaction Detected", None)>>
        \o (IF Truthy(block_number) THEN <<format_block_link(block_number)>> ELSE <<>>)
        \o (IF Truthy(tx_hash) THEN <<format_tx_link(tx_hash)>> ELSE <<>>)
        \o (IF Truthy(from_addr) THEN <<format_address_link("From", from_addr)>> ELSE <<>>)
        \o (IF Truthy(to_addr) THEN <<format_address_link("To", to_addr)>> ELSE <<>>)
        \o AmountLines(event)
        \o TypeLines(contract_type)
        \o DetailLines(event, event_data, contract_type)
        \o ScLines(event, event_data)
        \o <<Line("Time", None)>>

\* format_event: kind "None" for a payload without data, "raise" when a
\* statement raises, "text" with the lines of the message otherwise
format_event(event) ==
    IF DOMAIN event = {} THEN [kind |-> "None", lines |-> <<>>]
    ELSE IF DOMAIN event \cap DataKeys = {} THEN [kind |-> "None", lines |-> <<>>]
    ELSE LET lines == MsgLines(event)
         IN  IF \E i \in 1..Len(lines) : lines[i] = Raise
             THEN [kind |-> "raise", lines |-> <<>>]
             ELSE [kind |-> "text", lines |-> lines]

\* the smart-contract filter raises: event_data.get on a value that is no dict
FilterRaises(event) ==
    IF "EventData" \in DOMAIN event THEN event.EventData.t # "obj" ELSE FALSE

\* the filter without its `not`
SkippedBySc_NoNot(event) ==
    LET contract_type == Or(Get(event, "ContractType"), Get(event, "contractType"))
        event_data == IF "EventData" \in DOMAIN event THEN event.EventData ELSE Obj(<<>>)
        has_sc == Or(Get(event_data.v, "smartContract"), Get(event, "smartContract"))
    IN  contract_type # Str("TriggerSmartContract") /\ Truthy(has_sc)

\* the smart-contract filter of the read loop: TRUE when the event is skipped
SkippedBySc(event) ==
    LET contract_type == Or(Get(event, "ContractType"), Get(event, "contractType"))
        event_data == IF "EventData" \in DOMAIN event THEN event.EventData ELSE Obj(<<>>)
        has_sc == Or(Get(event_data.v, "smartContract"), Get(event, "smartContract"))
    IN  contract_type # Str("TriggerSmartContract") /\ ~Truthy(has_sc)

\* the loop body reaches the call of format_event for this frame
Decodes(filter_sc, frame) ==
    IF ~frame.json THEN FALSE
    ELSE IF ~filter_sc THEN TRUE
    ELSE IF FilterRaises(frame.event) THEN FALSE
    ELSE ~SkippedBySc(frame.event)

\* one pass of the loop body up to its first await: what is logged, or "send"
\* when bot.send_message is awaited
Process(filter_sc, frame) ==
    IF ~frame.json THEN "bad_json"
    ELSE IF filter_sc /\ FilterRaises(frame.event) THEN "error"
    ELSE IF filter_sc /\ SkippedBySc(frame.event) THEN "skipped"
    ELSE LET formatted_msg == format_event(frame.event)
         IN  IF formatted_msg.kind = "raise" THEN "error"
             ELSE IF formatted_msg.kind = "None" THEN "empty"
             ELSE "send"

\* the methods display_smart_contract_info knows: the labels of the addresses
\* it shows and of the amount it scales, "" when it shows no amount
KnownMethods ==
    "transfer(address,uint256)" :> [addresses |-> <<"To">>, amount |-> "Amount"] @@
    "transferFrom(address,address,uint256)" :> [addresses |-> <<"From", "To">>, amount |-> "Amount"] @@
    "approve(address,uint256)" :> [addresses |-> <<"Spender">>, amount |-> "Allowance"] @@
    "balanceOf(address)" :> [addresses |-> <<"Owner">>, amount |-> ""] @@
    "allowance(address,address)" :> [addresses |-> <<"Owner", "Spender">>, amount |-> ""]

\* EventMonitor.display_smart_contract_info: the lines printed, a Raise line
\* where a statement raises. A method name of the model holds a known
\* signature only when it is that signature
display_smart_contract_info(smart_contract) ==
    LET method_name == IF "methodName" \in DOMAIN smart_contract
                       THEN smart_contract.methodName ELSE Str("Unknown")
        method_sig == IF "methodSignature" \in DOMAIN smart_contract
                      THEN smart_contract.methodSignature ELSE Str("N/A")
        addresses == IF "addresses" \in DOMAIN smart_contract
                     THEN smart_contract.addresses ELSE Arr(<<>>)
        parameters == IF "parameters" \in DOMAIN smart_contract
                      THEN smart_contract.parameters ELSE Items(<<>>)
        amount == Get(smart_contract, "amount")
        readable(addr) == hex_to_tron_address(IF addr.t = "str" THEN Text(Chars[addr.v]) ELSE addr)
        RECURSIVE Shown(_, _)
        Shown(labels, i) ==
            IF i > Len(labels) THEN <<>>
            ELSE <<Line(labels[i] \o " (hex)", addresses.v[i]),
                   Line(labels[i], readable(addresses.v[i]))>> \o Shown(labels, i + 1)
    IN  IF method_name.t # "str" THEN <<Raise>>
        ELSE <<Line("Function", method_name), Line("Signature 0x", method_sig)>> \o
             IF method_name.v \in DOMAIN KnownMethods
             THEN LET known == KnownMethods[method_name.v]
                  IN  IF addresses.t # "list" THEN <<Raise>>
                      ELSE (IF Len(addresses.v) >= Len(known.addresses)
                            THEN Shown(known.addresses, 1) ELSE <<>>)
                           \o (IF known.amount = "" \/ ~Truthy(amount) THEN <<>>
                               ELSE IF TokenAmount(amount) = amount
                               THEN <<Line(known.amount, amount)>>
                               ELSE <<Line(known.amount, TokenAmount(amount)),
                                      Line(known.amount \o " (raw)", amount)>>)
             ELSE (IF ~Truthy(addresses) THEN <<>>
                   ELSE IF addresses.t # "list" THEN <<Raise>>
                   ELSE Shown([i \in 1..Len(addresses.v) |-> "Address"], 1))
                  \o (IF ~Truthy(parameters) THEN <<>>
                      ELSE IF parameters.t # "items" THEN <<Raise>>
                      ELSE [i \in 1..Len(parameters.v) |->
                               Line("Parameter " \o parameters.v[i].k, parameters.v[i].v)])
                  \o (IF Truthy(amount) THEN <<Line("Amount", amount)>> ELSE <<>>)

Last(q) == q[Len(q)]


\* ------------------------------------------------- monitor tasks
Terminal == {"done", "failed", "cancelled"}

Ended(tk, t) == tk[t].pc \in Terminal

\* the coroutine has run and has not ended
Running(tk, t) == tk[t].pc \notin Terminal \cup {"new"}

State(tk, t) ==
    CASE tk[t].pc = "new" -> "Created"
      [] tk[t].pc \in {"post", "connect"} -> "SubscriptionPending"
      [] tk[t].pc \in {"recv", "forward"} -> "Streaming"
      [] tk[t].pc \in {"notify", "failed"} -> "Failed"
      [] OTHER -> "Closed"

NewTask(c, cmd, k) ==
    [chat |-> c, cmd |-> cmd, key |-> k, pc |-> "new", must_cancel |-> FALSE,
     subscription_id |-> FALSE, failure |-> "none", notified |-> 0,
     streamed |-> FALSE, deletes |-> 0,
     received |-> <<>>, decoded |-> <<>>, log |-> <<>>, forwarded |-> <<>>]

\* task.cancel(): no effect on a task that is done
Cancel(tk, t) == IF Ended(tk, t) THEN tk ELSE [tk EXCEPT ![t].must_cancel = TRUE]

Step(t) == t \in 1..Len(tasks) /\ ~Ended(tasks, t) /\ ~tasks[t].must_cancel

\* first step of the coroutine, up to `await session.post(...)`
TaskStart(t) ==
    /\ Step(t) /\ tasks[t].pc = "new"
    /\ tasks' = [tasks EXCEPT ![t].pc = "post"]
    /\ UNCHANGED <<active_monitors, handlers, issued, reply, input, output, monitor>>

\* the subscription request answers 200/201 with an id
PostOk(t) ==
    /\ Step(t) /\ tasks[t].pc = "post"
    /\ tasks' = [tasks EXCEPT ![t].pc = "connect", ![t].subscription_id = TRUE]
    /\ UNCHANGED <<active_monitors, handlers, issued, reply, input, output, monitor>>

PostFailures == {"status", "no_id", "post_error"}

\* PostFails that goes on to open the stream
PostFails_Proceeds(t, why) ==
    /\ Step(t) /\ tasks[t].pc = "post" /\ why \in PostFailures
    /\ tasks' = [tasks EXCEPT ![t].pc = "connect"]
    /\ UNCHANGED <<active_monitors, handlers, issued, reply, input, output, monitor>>

\* ... or another status, or no id, or the request raises: each way the owner is
\* sent one failure message and the coroutine ends
PostFails(t, why) ==
    /\ Step(t) /\ tasks[t].pc = "post" /\ why \in PostFailures
    /\ tasks' = [tasks EXCEPT ![t].pc = "notify", ![t].failure = "create"]
    /\ UNCHANGED <<active_monitors, handlers, issued, reply, input, output, monitor>>

\* websockets.connect(ws_url) opens the stream
ConnectOk(t) ==
    /\ Step(t) /\ tasks[t].pc = "connect"
    /\ tasks' = [tasks EXCEPT ![t].pc = "recv", ![t].streamed = TRUE]
    /\ UNCHANGED <<active_monitors, handlers, issued, reply, input, output, monitor>>

ConnectFails(t) ==
    /\ Step(t) /\ tasks[t].pc = "connect"
    /\ tasks' = [tasks EXCEPT ![t].pc = "notify", ![t].failure = "connect_error"]
    /\ UNCHANGED <<active_monitors, handlers, issued, reply, input, output, monitor>>

\* the stream ends with a normal closure: the loop ends, then the finally block
StreamClosed(t) ==
    /\ Step(t) /\ tasks[t].pc = "recv"
    /\ tasks' = [tasks EXCEPT ![t].pc = "done"]
    /\ active_monitors' = CleanUp(active_monitors, tasks[t].chat, tasks[t].key)
    /\ UNCHANGED <<handlers, issued, reply, input, output, monitor>>

\* StreamError that reconnects instead of failing
StreamError_Reconnect(t) ==
    /\ Step(t) /\ tasks[t].pc = "recv"
    /\ tasks' = [tasks EXCEPT ![t].pc = "connect", ![t].failure = "stream_error"]
    /\ UNCHANGED <<active_monitors, handlers, issued, reply, input, output, monitor>>

\* the stream raises ConnectionClosedError (a WebSocketException)
StreamError(t) ==
    /\ Step(t) /\ tasks[t].pc = "recv"
    /\ tasks' = [tasks EXCEPT ![t].pc = "notify", ![t].failure = "stream_error"]
    /\ UNCHANGED <<active_monitors, handlers, issued, reply, input, output, monitor>>

\* the next frame arrives: the loop body runs up to its first await
Recv(t, frame) ==
    /\ Step(t) /\ tasks[t].pc = "recv"
    /\ Len(tasks[t].received) < MaxMsgs
    /\ LET p == Process(tasks[t].cmd = "monitor_sc", frame)
       IN  tasks' = [tasks EXCEPT
                ![t].received = Append(@, frame),
                ![t].decoded = IF Decodes(tasks[t].cmd = "monitor_sc", frame)
                               THEN Append(@, frame) ELSE @,
                ![t].pc = IF p = "send" THEN "forward" ELSE "recv",
                ![t].log = IF p = "send" THEN @ ELSE Append(@, p)]
    /\ UNCHANGED <<active_monitors, handlers, issued, reply, input, output, monitor>>

\* ForwardDone that forwards a stale event, the first one received
ForwardDone_Stale(t) ==
    /\ Step(t) /\ tasks[t].pc = "forward"
    /\ tasks' = [tasks EXCEPT ![t].pc = "recv",
                              ![t].forwarded = Append(@, Head(tasks[t].received)),
                              ![t].log = Append(@, "sent")]
    /\ UNCHANGED <<active_monitors, handlers, issued, reply, input, output, monitor>>

\* bot.send_message returns: the event has been forwarded
ForwardDone(t) ==
    /\ Step(t) /\ tasks[t].pc = "forward"
    /\ tasks' = [tasks EXCEPT ![t].pc = "recv",
                              ![t].forwarded = Append(@, Last(tasks[t].received)),
                              ![t].log = Append(@, "sent")]
    /\ UNCHANGED <<active_monitors, handlers, issued, reply, input, output, monitor>>

\* ForwardRaises that lets the error end the session
ForwardRaises_Fatal(t) ==
    /\ Step(t) /\ tasks[t].pc = "forward"
    /\ tasks' = [tasks EXCEPT ![t].pc = "notify", ![t].failure = "stream_error",
                              ![t].log = Append(@, "error")]
    /\ UNCHANGED <<active_monitors, handlers, issued, reply, input, output, monitor>>

\* bot.send_message raises: `except Exception` logs it and the loop goes on
ForwardRaises(t) ==
    /\ Step(t) /\ tasks[t].pc = "forward"
    /\ tasks' = [tasks EXCEPT ![t].pc = "recv", ![t].log = Append(@, "error")]
    /\ UNCHANGED <<active_monitors, handlers, issued, reply, input, output, monitor>>

\* Notified without the finally block
Notified_NoFinally(t) ==
    /\ Step(t) /\ tasks[t].pc = "notify"
    /\ tasks' = [tasks EXCEPT ![t].pc = "failed", ![t].notified = @ + 1]
    /\ UNCHANGED <<active_monitors, handlers, issued, reply, input, output, monitor>>

\* the failure message has been sent; return, then the finally block
Notified(t) ==
    /\ Step(t) /\ tasks[t].pc = "notify"
    /\ tasks' = [tasks EXCEPT ![t].pc = "failed", ![t].notified = @ + 1]
    /\ active_monitors' = CleanUp(active_monitors, tasks[t].chat, tasks[t].key)
    /\ UNCHANGED <<handlers, issued, reply, input, output, monitor>>

\* CancelledError is delivered.  A task that never ran has no finally block to run.
Cancelled(t) ==
    /\ t \in 1..Len(tasks) /\ ~Ended(tasks, t) /\ tasks[t].must_cancel
    /\ tasks' = [tasks EXCEPT ![t].pc = "cancelled", ![t].must_cancel = FALSE]
    /\ active_monitors' =
          IF tasks[t].pc = "new" THEN active_monitors
          ELSE CleanUp(active_monitors, tasks[t].chat, tasks[t].key)
    /\ UNCHANGED <<handlers, issued, reply, input, output, monitor>>

\* ------------------------------------------------- command handlers
Handler(cmd, c, arg) ==
    [cmd |-> cmd, chat |-> c, arg |-> arg, out |-> "none",
     key |-> NoKey, task |-> NoTask, keys |-> <<>>, idx |-> 0, saw |-> "none"]

\* the outcome of the handler that ended last; `flip` changes with every handler
\* that ends
NoReply == [h |-> Handler("none", 0, ""), flip |-> FALSE]

\* EventMonitor.__init__; no process in the runs of the bot (pc "none").
\* `pc` is the position of the main thread, `in_try` tells that the frame a
\* signal interrupted is inside the try block of run(), `sock` is the state of
\* the WebSocket thread, `last` the frame on_ws_message handled last.
NoMonitor ==
    [pc |-> "none", in_try |-> FALSE, subscription_id |-> FALSE, ws |-> FALSE,
     running |-> FALSE, stopped |-> FALSE, event_count |-> 0, sock |-> "none",
     closes |-> 0, deletes |-> 0, calls |-> 0, signals |-> 0,
     frames |-> 0, last |-> [json |-> FALSE, data |-> None]]

\* no pure function is under check in the runs of the bot
NoInput == [fn |-> "none", arg |-> <<>>]

NoOutput == [kind |-> "pending", lines |-> <<>>]

Budget == issued < MaxCmds

Suspended(h) == BagIn(h, handlers)

\* the handler of a new command ends without suspending
Ends(h) ==
    /\ issued' = issued + 1
    /\ reply' = [h |-> h, flip |-> ~reply.flip]
    /\ UNCHANGED <<handlers, input, output, monitor>>

\* the handler of a new command suspends
Suspends(h) ==
    /\ issued' = issued + 1
    /\ handlers' = handlers (+) SetToBag({h})
    /\ UNCHANGED <<reply, input, output, monitor>>

\* the suspended handler h resumes and ends as n
ResumeEnds(h, n) ==
    /\ handlers' = handlers (-) SetToBag({h})
    /\ reply' = [h |-> n, flip |-> ~reply.flip]
    /\ UNCHANGED <<issued, input, output, monitor>>

\* the suspended handler h resumes and suspends again as n
ResumeSuspends(h, n) ==
    /\ handlers' = (handlers (-) SetToBag({h})) (+) SetToBag({n})
    /\ UNCHANGED <<issued, reply, input, output, monitor>>

StartHandlers == {h \in BagToSet(handlers) : h.cmd \in StartCmds}

RECURSIVE Copies(_)
Copies(S) ==
    IF S = {} THEN 0
    ELSE LET h == CHOOSE x \in S : TRUE
         IN  CopiesIn(h, handlers) + Copies(S \ {h})

\* the start handlers that will each create a task when they resume
Spawning == Copies(StartHandlers)

\* another task may be created in this run
TaskBudget == Len(tasks) + Spawning < MaxTasks

\* not address.startswith('T') or len(address) < 30
InvalidFormat(address) == SubSeq(address, 1, 1) # "T" \/ Len(address) < 30

\* cmd_monitor_allsc takes no address
Checked(cmd) == cmd \in {"monitor", "monitor_sc"}

\* cmd_monitor, cmd_monitor_sc: the invalid-format reply
MonitorInvalid(c, cmd, a) ==
    /\ Checked(cmd) /\ InvalidFormat(a)
    /\ Ends([Handler(cmd, c, a) EXCEPT !.out = "invalid"])
    /\ UNCHANGED <<active_monitors, tasks>>

\* MonitorRejected that replaces the session: the live task is cancelled
MonitorRejected_Replaces(c, cmd, a) ==
    /\ Checked(cmd) => ~InvalidFormat(a)
    /\ Monitoring(active_monitors, c, StartKey(cmd, a))
    /\ Ends([Handler(cmd, c, a) EXCEPT !.out = "duplicate", !.key = StartKey(cmd, a)])
    /\ tasks' = Cancel(tasks, Lookup(active_monitors[c], StartKey(cmd, a)))
    /\ UNCHANGED active_monitors

\* cmd_monitor, cmd_monitor_sc, cmd_monitor_allsc: already monitoring
MonitorRejected(c, cmd, a) ==
    /\ Checked(cmd) => ~InvalidFormat(a)
    /\ Monitoring(active_monitors, c, StartKey(cmd, a))
    /\ Ends([Handler(cmd, c, a) EXCEPT !.out = "duplicate", !.key = StartKey(cmd, a)])
    /\ UNCHANGED <<active_monitors, tasks>>

\* MonitorAccepted without the duplicate check
MonitorAccepted_Unchecked(c, cmd, a) ==
    /\ Checked(cmd) => ~InvalidFormat(a)
    /\ Suspends([Handler(cmd, c, a) EXCEPT !.key = StartKey(cmd, a)])
    /\ UNCHANGED <<active_monitors, tasks>>

\* ... or not: `await message.answer("Starting ...")`
MonitorAccepted(c, cmd, a) ==
    /\ Checked(cmd) => ~InvalidFormat(a)
    /\ ~Monitoring(active_monitors, c, StartKey(cmd, a))
    /\ Suspends([Handler(cmd, c, a) EXCEPT !.key = StartKey(cmd, a)])
    /\ UNCHANGED <<active_monitors, tasks>>

\* asyncio.create_task(...) and the store into active_monitors
MonitorSpawn(h) ==
    /\ Suspended(h) /\ h.cmd \in StartCmds
    /\ LET t == Len(tasks) + 1
       IN  /\ tasks' = Append(tasks, NewTask(h.chat, h.cmd, h.key))
           /\ active_monitors' = Store(active_monitors, h.chat, h.key, t)
           /\ ResumeEnds(h, [h EXCEPT !.out = "started", !.task = t])

\* StopKey that looks for the smart contract monitor first
StopKey_ScFirst(am, c, arg) ==
    IF arg = "global"
    THEN IF Monitoring(am, c, "GLOBAL_SC") THEN "GLOBAL_SC" ELSE NoKey
    ELSE IF Monitoring(am, c, ScKey(arg)) THEN ScKey(arg)
    ELSE IF Monitoring(am, c, arg) THEN arg
    ELSE NoKey

\* cmd_stop_monitor: the key the command addresses, the plain monitor first
StopKey(am, c, arg) ==
    IF arg = "global"
    THEN IF Monitoring(am, c, "GLOBAL_SC") THEN "GLOBAL_SC" ELSE NoKey
    ELSE IF Monitoring(am, c, arg) THEN arg
    ELSE IF Monitoring(am, c, ScKey(arg)) THEN ScKey(arg)
    ELSE NoKey

\* what cmd_stop_monitor does once `await task` has returned
StopTail(am, c, k) ==
    IF k = "GLOBAL_SC"
    THEN IF ~HasChat(am, c) THEN [am |-> am, out |-> "KeyError"]
         ELSE LET d == IF KeyIn(am[c], k) THEN DictDel(am[c], k) ELSE am[c]
              IN  [am |-> IF Len(d) = 0 THEN AmDrop(am, c) ELSE AmPut(am, c, d),
                   out |-> "stopped"]
    ELSE IF ~Monitoring(am, c, k) THEN [am |-> am, out |-> "KeyError"]
         ELSE [am |-> Remove(am, c, k), out |-> "stopped"]

StopNotFound(c, arg) ==
    /\ StopKey(active_monitors, c, arg) = NoKey
    /\ Ends([Handler("stop_monitor", c, arg) EXCEPT !.out = "not_found"])
    /\ UNCHANGED <<active_monitors, tasks>>

\* task.cancel(); await task.  Awaiting a task that is done does not suspend.
StopFound(c, arg) ==
    /\ StopKey(active_monitors, c, arg) # NoKey
    /\ LET k == StopKey(active_monitors, c, arg)
           t == Lookup(active_monitors[c], k)
           h == [Handler("stop_monitor", c, arg) EXCEPT
                     !.key = k, !.task = t, !.saw = State(tasks, t)]
           r == StopTail(active_monitors, c, k)
       IN  IF Ended(tasks, t)
           THEN /\ Ends([h EXCEPT !.out = r.out])
                /\ active_monitors' = r.am
                /\ UNCHANGED tasks
           ELSE /\ Suspends(h)
                /\ tasks' = Cancel(tasks, t)
                /\ UNCHANGED active_monitors

StopResume(h) ==
    /\ Suspended(h) /\ h.cmd = "stop_monitor"
    /\ Ended(tasks, h.task)
    /\ LET r == StopTail(active_monitors, h.chat, h.key)
       IN  /\ ResumeEnds(h, [h EXCEPT !.out = r.out])
           /\ active_monitors' = r.am
    /\ UNCHANGED tasks

\* cmd_stop_all: the loop over the keys listed on entry, from position j, up to
\* the next suspension, an error, or the end of the loop
RECURSIVE StopAllLoop(_, _, _, _, _)
StopAllLoop(am, tk, c, keys, j) ==
    IF j > Len(keys) THEN [tasks |-> tk, pc |-> "finish", idx |-> j, task |-> NoTask]
    ELSE IF ~HasChat(am, c)
    THEN [tasks |-> tk, pc |-> "KeyError", idx |-> j, task |-> NoTask]
    ELSE IF ~KeyIn(am[c], keys[j]) THEN StopAllLoop(am, tk, c, keys, j + 1)
    ELSE LET t == Lookup(am[c], keys[j])
         IN  IF Ended(tk, t) THEN StopAllLoop(am, tk, c, keys, j + 1)
             ELSE [tasks |-> Cancel(tk, t), pc |-> "await", idx |-> j, task |-> t]

\* the handler and the registry after a run of the loop: suspended, failed, or
\* past the loop, where the chat's whole entry is deleted
StopAllRun(h, am, r) ==
    IF r.pc = "await"
    THEN [h |-> [h EXCEPT !.idx = r.idx, !.task = r.task], am |-> am]
    ELSE IF r.pc = "KeyError"
    THEN [h |-> [h EXCEPT !.out = "KeyError", !.idx = 0, !.task = NoTask], am |-> am]
    ELSE [h |-> [h EXCEPT !.out = "stopped_all", !.idx = 0, !.task = NoTask],
          am |-> IF HasChat(am, h.chat) THEN AmDrop(am, h.chat) ELSE am]

StopAllNone(c) ==
    /\ IF HasChat(active_monitors, c) THEN Len(active_monitors[c]) = 0 ELSE TRUE
    /\ Ends([Handler("stop_all", c, "") EXCEPT !.out = "nothing"])
    /\ UNCHANGED <<active_monitors, tasks>>

StopAllBegin(c) ==
    /\ HasChat(active_monitors, c) /\ Len(active_monitors[c]) > 0
    /\ LET h == [Handler("stop_all", c, "") EXCEPT !.keys = DictKeys(active_monitors[c])]
           r == StopAllLoop(active_monitors, tasks, c, h.keys, 1)
           n == StopAllRun(h, active_monitors, r)
       IN  /\ IF r.pc = "await" THEN Suspends(n.h) ELSE Ends(n.h)
           /\ active_monitors' = n.am
           /\ tasks' = r.tasks

StopAllResume(h) ==
    /\ Suspended(h) /\ h.cmd = "stop_all"
    /\ Ended(tasks, h.task)
    /\ LET r == StopAllLoop(active_monitors, tasks, h.chat, h.keys, h.idx + 1)
           n == StopAllRun(h, active_monitors, r)
       IN  /\ IF r.pc = "await" THEN ResumeSuspends(h, n.h) ELSE ResumeEnds(h, n.h)
           /\ active_monitors' = n.am
           /\ tasks' = r.tasks

\* cmd_list: no monitor of this chat
ListNone(c) ==
    /\ IF HasChat(active_monitors, c) THEN Len(active_monitors[c]) = 0 ELSE TRUE
    /\ Ends([Handler("list", c, "") EXCEPT !.out = "nothing"])
    /\ UNCHANGED <<active_monitors, tasks>>

\* cmd_list: one numbered line per key of list(active_monitors[chat_id].keys())
List(c) ==
    /\ HasChat(active_monitors, c) /\ Len(active_monitors[c]) > 0
    /\ Ends([Handler("list", c, "") EXCEPT
                 !.out = "listed", !.keys = DictKeys(active_monitors[c])])
    /\ UNCHANGED <<active_monitors, tasks>>

\* main, after polling has ended: the finally block as a suspended handler.
\* `chats` are the chat ids still to visit, `items` the tasks of the chat being
\* visited that are still to cancel, `seen` the tasks the loop has listed.
Main(chats, items, seen) ==
    [cmd |-> "shutdown", out |-> "none", task |-> NoTask,
     chats |-> chats, items |-> items, seen |-> seen]

\* the tasks of list(active_monitors[chat_id].items())
DictTasks(d) == [j \in 1..Len(d) |-> d[j].task]

\* the two loops of the finally block, up to the next suspension, an error, or
\* `await bot.session.close()`.  Awaiting a task that is done does not suspend.
RECURSIVE ShutdownLoop(_, _, _)
ShutdownLoop(am, tk, h) ==
    IF Len(h.items) > 0
    THEN LET t == Head(h.items)
         IN  IF Ended(tk, t) THEN ShutdownLoop(am, tk, [h EXCEPT !.items = Tail(@)])
             ELSE [tasks |-> Cancel(tk, t),
                   h |-> [h EXCEPT !.items = Tail(@), !.task = t]]
    ELSE IF Len(h.chats) = 0
    THEN [tasks |-> tk, h |-> [h EXCEPT !.out = "closed", !.task = NoTask]]
    ELSE IF ~HasChat(am, Head(h.chats))
    THEN [tasks |-> tk, h |-> [h EXCEPT !.out = "KeyError", !.task = NoTask]]
    ELSE LET items == DictTasks(am[Head(h.chats)])
         IN  ShutdownLoop(am, tk, [h EXCEPT !.chats = Tail(@), !.items = items,
                                            !.seen = @ \cup Range(items)])

\* the orders in which list(active_monitors.keys()) may hold the chats of am:
\* the order in which their entries were created, which may be any order (the
\* program treats all chats alike)
ChatOrders(am) ==
    {q \in UNION {[1..n -> DOMAIN am] : n \in {Cardinality(DOMAIN am)}} :
        \A i, j \in 1..Len(q) : i # j => q[i] # q[j]}

\* polling has not ended
Polling ==
    /\ reply.h.cmd # "shutdown"
    /\ \A h \in BagToSet(handlers) : h.cmd # "shutdown"

\* the finally block has run to its end or to an error: the process exits
Exited == reply.h.cmd = "shutdown"

\* dp.start_polling returns; the finally block runs up to its first await
ShutdownBegin ==
    /\ Polling
    /\ \E chats \in ChatOrders(active_monitors) :
           LET r == ShutdownLoop(active_monitors, tasks, Main(chats, <<>>, {}))
           IN  /\ IF r.h.out = "none" THEN Suspends(r.h) ELSE Ends(r.h)
               /\ tasks' = r.tasks
    /\ UNCHANGED active_monitors

\* the awaited task has ended: the loops go on
ShutdownResume(h) ==
    /\ Suspended(h) /\ h.cmd = "shutdown"
    /\ Ended(tasks, h.task)
    /\ LET r == ShutdownLoop(active_monitors, tasks, h)
       IN  /\ IF r.h.out = "none" THEN ResumeSuspends(h, r.h) ELSE ResumeEnds(h, r.h)
           /\ tasks' = r.tasks
    /\ UNCHANGED active_monitors

\* ------------------------------------------------- the registry specification
Init ==
    /\ active_monitors = <<>>
    /\ tasks = <<>>
    /\ handlers = EmptyBag
    /\ issued = 0
    /\ reply = NoReply
    /\ input = NoInput
    /\ output = NoOutput
    /\ monitor = NoMonitor

TaskNext ==
    \E t \in 1..MaxTasks + 1 :
        \/ TaskStart(t)
        \/ PostOk(t)
        \/ \E why \in PostFailures : PostFails(t, why)
        \/ ConnectOk(t)
        \/ ConnectFails(t)
        \/ StreamClosed(t)
        \/ StreamError(t)
        \/ Notified(t)
        \/ Cancelled(t)

StopArgs == Addresses \cup {"global"}

Next ==
    \/ TaskNext
    \/ \E c \in Chats, cmd \in StartCmds, a \in Addresses :
           Budget /\ MonitorRejected(c, cmd, a)
    \/ \E c \in Chats, cmd \in StartCmds, a \in Addresses :
           Budget /\ TaskBudget /\ MonitorAccepted(c, cmd, a)
    \/ \E h \in BagToSet(handlers) : MonitorSpawn(h)
    \/ \E c \in Chats, arg \in StopArgs : Budget /\ StopNotFound(c, arg)
    \/ \E c \in Chats, arg \in StopArgs : Budget /\ StopFound(c, arg)
    \/ \E h \in BagToSet(handlers) : StopResume(h)
    \/ \E c \in Chats : Budget /\ StopAllNone(c)
    \/ \E c \in Chats : Budget /\ StopAllBegin(c)
    \/ \E h \in BagToSet(handlers) : StopAllResume(h)

Spec == Init /\ [][Next]_vars

\* ------------------------------------------------- one session and its stream
StreamNext ==
    \/ TaskNext
    \/ \E t \in 1..MaxTasks + 1, frame \in Frames : Recv(t, frame)
    \/ \E t \in 1..MaxTasks + 1 : ForwardDone(t)
    \/ \E t \in 1..MaxTasks + 1 : ForwardRaises(t)
    \/ \E c \in Chats, cmd \in {"monitor", "monitor_sc"}, a \in Addresses :
           Budget /\ TaskBudget /\ tasks = <<>> /\ handlers = EmptyBag
           /\ MonitorAccepted(c, cmd, a)
    \/ \E h \in BagToSet(handlers) : MonitorSpawn(h)
    \/ \E c \in Chats, arg \in Addresses : Budget /\ StopFound(c, arg)
    \/ \E h \in BagToSet(handlers) : StopResume(h)

SpecStream == Init /\ [][StreamNext]_vars

\* ------------------------------------------------- scenario D, one command at a time
ScenarioD ==
    <<[cmd |-> "monitor", arg |-> "TKfUiqAGByAHv8nmTzZqK3RxNc4p3yPqGf"], [cmd |-> "monitor", arg |-> "TKfUiqAGByAHv8nmTzZqK3RxNc4p3yPqGf"],
      [cmd |-> "stop_monitor", arg |-> "TKfUiqAGByAHv8nmTzZqK3RxNc4p3yPqGf"], [cmd |-> "monitor", arg |-> "TKfUiqAGByAHv8nmTzZqK3RxNc4p3yPqGf"]>>

ScenarioChat == CHOOSE c \in Chats : TRUE

\* the next command of the scenario is `cmd`, and no handler is still running
Turn(cmd) ==
    /\ handlers = EmptyBag
    /\ issued < Len(ScenarioD)
    /\ ScenarioD[issued + 1].cmd = cmd

ScenarioNext ==
    \/ TaskNext
    \/ Turn("monitor") /\ MonitorRejected(ScenarioChat, "monitor", ScenarioD[issued + 1].arg)
    \/ Turn("monitor") /\ TaskBudget
           /\ MonitorAccepted(ScenarioChat, "monitor", ScenarioD[issued + 1].arg)
    \/ \E h \in BagToSet(handlers) : MonitorSpawn(h)
    \/ Turn("stop_monitor") /\ StopNotFound(ScenarioChat, ScenarioD[issued + 1].arg)
    \/ Turn("stop_monitor") /\ StopFound(ScenarioChat, ScenarioD[issued + 1].arg)
    \/ \E h \in BagToSet(handlers) : StopResume(h)

SpecD == Init /\ [][ScenarioNext]_vars

\* ------------------------------------------------- starts, stops and lists
ListBudget == issued < MaxListCmds

ListTaskBudget == Len(tasks) + Spawning < MaxListTasks

\* the sessions either wait for their subscription, fail there, or are cancelled
ListNext ==
    \/ \E t \in 1..MaxListTasks + 1 : TaskStart(t)
    \/ \E t \in 1..MaxListTasks + 1, why \in PostFailures : PostFails(t, why)
    \/ \E t \in 1..MaxListTasks + 1 : Notified(t)
    \/ \E t \in 1..MaxListTasks + 1 : Cancelled(t)
    \/ \E c \in Chats, cmd \in {"monitor", "monitor_sc"}, a \in Addresses :
           ListBudget /\ MonitorRejected(c, cmd, a)
    \/ \E c \in Chats, cmd \in {"monitor", "monitor_sc"}, a \in Addresses :
           ListBudget /\ ListTaskBudget /\ MonitorAccepted(c, cmd, a)
    \/ \E h \in BagToSet(handlers) : MonitorSpawn(h)
    \/ \E c \in Chats, arg \in Addresses : ListBudget /\ StopNotFound(c, arg)
    \/ \E c \in Chats, arg \in Addresses : ListBudget /\ StopFound(c, arg)
    \/ \E h \in BagToSet(handlers) : StopResume(h)
    \/ \E c \in Chats : ListBudget /\ ListNone(c)
    \/ \E c \in Chats : ListBudget /\ List(c)

SpecList == Init /\ [][ListNext]_vars

\* ------------------------------------------------- the arguments of a start
\* an address, the same with _SC appended, one of 30 characters, one that does
\* not start with T, one that is too short
StartArgs ==
    Addresses \cup {"TKfUiqAGByAHv8nmTzZqK3RxNc4p3yPqGf_SC",
                    "TKfUiqAGByAHv8nmTzZqK3RxNc4p3y",
                    "XKfUiqAGByAHv8nmTzZqK3RxNc4p3yPqGf", "T123"}

StartNext ==
    \/ \E t \in 1..MaxTasks + 1 : TaskStart(t)
    \/ \E t \in 1..MaxTasks + 1, why \in PostFailures : PostFails(t, why)
    \/ \E t \in 1..MaxTasks + 1 : Notified(t)
    \/ \E t \in 1..MaxTasks + 1 : Cancelled(t)
    \/ \E c \in Chats, cmd \in StartCmds, a \in StartArgs :
           Budget /\ MonitorInvalid(c, cmd, a)
    \/ \E c \in Chats, cmd \in StartCmds, a \in StartArgs :
           Budget /\ MonitorRejected(c, cmd, a)
    \/ \E c \in Chats, cmd \in StartCmds, a \in StartArgs :
           Budget /\ TaskBudget /\ MonitorAccepted(c, cmd, a)
    \/ \E h \in BagToSet(handlers) : MonitorSpawn(h)
    \/ \E c \in Chats, arg \in StartArgs \cup {"global"} : Budget /\ StopNotFound(c, arg)
    \/ \E c \in Chats, arg \in StartArgs \cup {"global"} : Budget /\ StopFound(c, arg)
    \/ \E h \in BagToSet(handlers) : StopResume(h)

SpecStart == Init /\ [][StartNext]_vars

\* ------------------------------------------------- two chats and the shutdown
ShutdownChats == {1, 2}

ShutdownNext ==
    \/ ~Exited /\ TaskNext
    \/ \E c \in ShutdownChats, a \in Addresses :
           Polling /\ Budget /\ TaskBudget /\ MonitorAccepted(c, "monitor", a)
    \/ \E h \in BagToSet(handlers) : ~Exited /\ MonitorSpawn(h)
    \/ ShutdownBegin
    \/ \E h \in BagToSet(handlers) : ShutdownResume(h)

SpecShutdown == Init /\ [][ShutdownNext]_vars

\* ------------------------------------------------- the console monitor
\* Threads: the main thread runs run() and, between any two of its steps, the
\* signal handler; the daemon thread runs the WebSocket callbacks and ends
\* with the process.  sys.exit(0) in the handler raises SystemExit at the point
\* the signal interrupted: the interrupted code does not resume.
Others == <<active_monitors, tasks, handlers, issued, reply, input, output>>

Alive == monitor.pc \notin {"none", "exit"}

\* a text frame: not JSON, or JSON of a dict, of a list or of a number
Messages ==
    {[json |-> FALSE, data |-> None]} \cup
    {[json |-> TRUE, data |-> d] :
        d \in {Obj(AckEvent), Obj([type |-> Str("event")]),
               Obj([type |-> Str("error"), message |-> Str("x")]),
               Obj([type |-> Str("error"), TransactionID |-> Str("tx1")]),
               Obj([type |-> Str("connected"), TransactionHash |-> Str("tx1")]),
               Obj([TransactionID |-> Str("tx1")]),
               Obj([type |-> Str("transaction"), TransactionHash |-> Str("tx1")]),
               Obj([type |-> Str("ping")]), Arr(<<>>), Num(5)}}

\* on_ws_message that counts every message with a transaction id
on_ws_message_AnyType(event_count, message) ==
    IF ~message.json \/ message.data.t # "obj" THEN event_count
    ELSE LET data == message.data.v
             event_type == IF "type" \in DOMAIN data THEN data.type ELSE Str("unknown")
         IN  IF event_type = Str("event") THEN event_count + 1
             ELSE IF "TransactionID" \in DOMAIN data \/ "TransactionHash" \in DOMAIN data
             THEN event_count + 1
             ELSE event_count

\* on_ws_message: the event counter afterwards.  json.loads raises on a frame
\* that is not JSON, data.get raises on a value that is not a dict, and what
\* display_event raises is caught after the counter has been incremented.
on_ws_message(event_count, message) ==
    IF ~message.json \/ message.data.t # "obj" THEN event_count
    ELSE LET data == message.data.v
             event_type == IF "type" \in DOMAIN data THEN data.type ELSE Str("unknown")
         IN  IF event_type = Str("connected") THEN event_count
             ELSE IF event_type = Str("event") THEN event_count + 1
             ELSE IF event_type = Str("error") THEN event_count
             ELSE IF "TransactionID" \in DOMAIN data \/ "TransactionHash" \in DOMAIN data
             THEN event_count + 1
             ELSE event_count

\* main() calls run()
RunBegin ==
    /\ monitor.pc = "none"
    /\ monitor' = [monitor EXCEPT !.pc = "create"]
    /\ UNCHANGED Others

\* create_subscription: 200/201 with an id, 200/201 without one, or a failure,
\* after which run() returns False
CreateSubscription(answer) ==
    /\ monitor.pc = "create" /\ answer \in {"id", "no_id", "failure"}
    /\ monitor' = [monitor EXCEPT
                       !.subscription_id = (answer = "id"),
                       !.pc = IF answer = "failure" THEN "exit" ELSE "connect"]
    /\ UNCHANGED Others

\* a call of stop() begins
Call(m) == [m EXCEPT !.pc = "stop", !.calls = @ + 1]

\* stop() returns: the SystemExit that unwinds run()'s try block runs its
\* finally block, any other return ends run() and the process
Return(m) ==
    IF m.in_try THEN Call([m EXCEPT !.in_try = FALSE]) ELSE [m EXCEPT !.pc = "exit"]

\* connect_websocket: without a subscription id, or when the WebSocketApp or
\* its thread cannot be created, it returns False and run() calls stop();
\* otherwise the thread is started and the main thread sleeps one second
ConnectWebsocket(raises) ==
    /\ monitor.pc = "connect" /\ raises \in BOOLEAN
    /\ monitor' = IF ~monitor.subscription_id THEN Call(monitor)
                  ELSE IF raises THEN Call(monitor)
                  ELSE [monitor EXCEPT !.ws = TRUE, !.sock = "connecting", !.pc = "wait"]
    /\ UNCHANGED Others

\* time.sleep(1) of connect_websocket ends; run() enters its try block
Waited ==
    /\ monitor.pc = "wait"
    /\ monitor' = [monitor EXCEPT !.pc = "loop"]
    /\ UNCHANGED Others

\* while self.running: time.sleep(1) -- the loop ends, finally: self.stop()
LoopEnds ==
    /\ monitor.pc = "loop" /\ ~monitor.running
    /\ monitor' = Call(monitor)
    /\ UNCHANGED Others

\* StopGuard without the guard against a second call
StopGuard_Unguarded ==
    /\ monitor.pc = "stop"
    /\ monitor' = [monitor EXCEPT !.pc = "stop_mark"]
    /\ UNCHANGED Others

\* stop(): if hasattr(self, '_stopped') and self._stopped: return
StopGuard ==
    /\ monitor.pc = "stop"
    /\ monitor' = IF monitor.stopped THEN Return(monitor)
                  ELSE [monitor EXCEPT !.pc = "stop_mark"]
    /\ UNCHANGED Others

\* self._stopped = True
StopMark ==
    /\ monitor.pc = "stop_mark"
    /\ monitor' = [monitor EXCEPT !.stopped = TRUE, !.pc = "stop_close"]
    /\ UNCHANGED Others

\* if self.ws and self.running: self.ws.close(); time.sleep(1)
StopClose ==
    /\ monitor.pc = "stop_close"
    /\ monitor' = IF monitor.ws /\ monitor.running
                  THEN [monitor EXCEPT !.closes = @ + 1, !.pc = "stop_sleep"]
                  ELSE [monitor EXCEPT !.pc = "stop_delete"]
    /\ UNCHANGED Others

StopSlept ==
    /\ monitor.pc = "stop_sleep"
    /\ monitor' = [monitor EXCEPT !.pc = "stop_delete"]
    /\ UNCHANGED Others

\* if self.subscription_id: requests.delete(...), whatever it answers
StopDelete ==
    /\ monitor.pc = "stop_delete"
    /\ monitor' = [monitor EXCEPT
                       !.deletes = IF monitor.subscription_id THEN @ + 1 ELSE @,
                       !.pc = "stop_end"]
    /\ UNCHANGED Others

StopReturns ==
    /\ monitor.pc = "stop_end"
    /\ monitor' = Return(monitor)
    /\ UNCHANGED Others

\* SIGINT or SIGTERM: signal_handler calls stop() and then sys.exit(0)
Signal ==
    /\ Alive /\ monitor.signals < MaxSignals
    /\ monitor' = Call([monitor EXCEPT !.signals = @ + 1,
                                       !.in_try = @ \/ monitor.pc = "loop"])
    /\ UNCHANGED Others

\* the WebSocket thread: the connection opens (on_ws_open)
WsOpen ==
    /\ Alive /\ monitor.sock = "connecting"
    /\ monitor' = [monitor EXCEPT !.sock = "open", !.running = TRUE]
    /\ UNCHANGED Others

\* the connection fails or closes (on_ws_error, on_ws_close)
WsClose ==
    /\ Alive /\ monitor.sock \in {"connecting", "open"}
    /\ monitor' = [monitor EXCEPT !.sock = "closed", !.running = FALSE]
    /\ UNCHANGED Others

\* a frame arrives (on_ws_message)
WsMessage(message) ==
    /\ Alive /\ monitor.sock = "open" /\ monitor.frames < MaxMsgs
    /\ monitor' = [monitor EXCEPT
                       !.event_count = on_ws_message(@, message),
                       !.frames = @ + 1, !.last = message]
    /\ UNCHANGED Others

MonitorNext ==
    \/ RunBegin
    \/ \E answer \in {"id", "no_id", "failure"} : CreateSubscription(answer)
    \/ \E raises \in BOOLEAN : ConnectWebsocket(raises)
    \/ Waited
    \/ LoopEnds
    \/ StopGuard
    \/ StopMark
    \/ StopClose
    \/ StopSlept
    \/ StopDelete
    \/ StopReturns
    \/ Signal
    \/ WsOpen
    \/ WsClose
    \/ \E message \in Messages : WsMessage(message)

SpecMonitor == Init /\ [][MonitorNext]_vars

\* ------------------------------------------------- the decoder on its own
EventKeys == {"type", "TransactionID", "From", "Amount", "ContractType", "EventData"}

\* null, a number, a numeric string, a contract type, and two objects
EventValues ==
    {None, Num(5), Str("5"), Str("FreezeBalanceContract"), Obj(<<>>),
     Obj([smartContract |-> Obj([methodName |-> Str("transfer"), amount |-> Str("5")])])}

\* the JSON objects over these keys and values, the empty object included
Events == UNION {[K -> EventValues] : K \in SUBSET EventKeys}

\* the keys format_event tries for each field, in the order it tries them
FieldAliases ==
    [Block |-> <<"BlockNumber", "blockNumber">>,
     TX |-> <<"TransactionID", "TransactionHash", "txHash">>,
     From |-> <<"From", "from">>,
     To |-> <<"To", "to">>,
     Amount |-> <<"Amount", "amount">>,
     Type |-> <<"ContractType", "contractType">>]

\* a well-typed value for each key, no two keys of a field with the same one
AliasValue ==
    [BlockNumber |-> Num(11), blockNumber |-> Num(12),
     TransactionID |-> Str("tx1"), TransactionHash |-> Str("tx2"), txHash |-> Str("tx3"),
     From |-> Str("f1"), from |-> Str("f2"),
     To |-> Str("t1"), to |-> Str("t2"),
     Amount |-> Num(5), amount |-> Num(7),
     ContractType |-> Str("TransferContract"), contractType |-> Str("MintContract")]

\* null, zero and the empty string
FalsyValues == {None, Num(0), Str("")}

\* payloads that hold any of the keys of one field, each with its value or
\* with a falsy one, next to one address that makes them an event
AliasEvents ==
    UNION {
        UNION {
            {e @@ (IF f = "To" THEN [From |-> Str("f1")] ELSE [To |-> Str("t1")]) :
                e \in {x \in [K -> FalsyValues \cup {AliasValue[k] : k \in K}] :
                          \A k \in K : x[k] \in FalsyValues \cup {AliasValue[k]}}}
            : K \in SUBSET Range(FieldAliases[f])}
        : f \in DOMAIN FieldAliases}

\* the tags of the table, tags that are not in it, a number and null
Tags ==
    {Str(tag) : tag \in DOMAIN type_mapping \cup {"MintContract", "transfercontract", ""}}
    \cup {Num(5), None}

MaxHexLen == 4

\* the strings of up to MaxHexLen characters: hexadecimal digits, the x of the
\* 0x prefix and a letter that is no digit
ShortHex == UNION {[1..n -> {"0", "1", "4", "a", "x", "z"}] : n \in 0..MaxHexLen}

\* a 20-byte or 21-byte address with or without 0x, with or without 41, as it
\* is or padded with zeros. The addresses of 20 bytes: the two of
\* test_address_display.py without their 41, one that starts with a zero
\* digit, one that starts with 41, and zero
AddressInputs ==
    LET AddressBodies ==
            {<<"d", "3", "6", "8", "2", "9", "6", "2", "0", "2", "7", "e", "7", "2",
               "1", "c", "5", "2", "4", "7", "a", "9", "f", "a", "f", "7", "8", "6",
               "5", "f", "e", "4", "a", "7", "1", "d", "5", "4", "3", "8">>,
             <<"e", "c", "a", "9", "b", "c", "8", "2", "8", "a", "3", "0", "0", "5",
               "b", "9", "a", "3", "b", "9", "0", "9", "f", "2", "c", "c", "5", "c",
               "2", "a", "5", "4", "7", "9", "4", "d", "e", "0", "5", "f">>,
             <<"0", "a", "5", "c", "5", "c", "5", "c", "5", "c", "5", "c", "5", "c",
               "5", "c", "5", "c", "5", "c", "5", "c", "5", "c", "5", "c", "5", "c",
               "5", "c", "5", "c", "5", "c", "5", "c", "5", "c", "5", "c">>,
             <<"4", "1", "7", "b", "7", "b", "7", "b", "7", "b", "7", "b", "7", "b",
               "7", "b", "7", "b", "7", "b", "7", "b", "7", "b", "7", "b", "7", "b",
               "7", "b", "7", "b", "7", "b", "7", "b", "7", "b", "7", "b">>,
             <<"0", "0", "0", "0", "0", "0", "0", "0", "0", "0", "0", "0", "0", "0",
               "0", "0", "0", "0", "0", "0", "0", "0", "0", "0", "0", "0", "0", "0",
               "0", "0", "0", "0", "0", "0", "0", "0", "0", "0", "0", "0">>}
    IN  {prefix \o padding \o network \o body :
            prefix \in {<<>>, <<"0", "x">>, <<"0", "X">>},
            padding \in {<<>>, [i \in 1..24 |-> "0"]},
            network \in {<<>>, <<"4", "1">>},
            body \in AddressBodies}

\* call descriptors: each key absent or with one of a few values. Two valid
\* hex addresses, a text address and a 41-prefixed string that is no hex
CallDescriptors ==
    LET A1 == Str("41d3682962027e721c5247a9faf7865fe4a71d5438")
        A2 == Str("41aa")
        T1 == Str("TVF2Mp9QY7FEGTnr3DBpFLobA6jguHyMvi")
        Bad == Str("41zz")
        Word == Str("0000000000000000000000000000000000000000000000000000000000000064")
        Opt(key, values) == {<<>>} \cup {key :> v : v \in values}
    IN  {a @@ b @@ c @@ d @@ e :
            a \in Opt("methodName", {None, Str("transfer(address,uint256)"),
                                      Str("balanceOf(address)"), Str("mint(address)")}),
            b \in Opt("methodSignature", {Str("deadbeef")}),
            c \in Opt("addresses", {Arr(<<>>), Arr(<<A1>>), Arr(<<A2, T1, Bad>>),
                                    Arr(<<A1, A2, T1, Bad>>), Arr(<<Num(5)>>)}),
            d \in Opt("amount", {Num(0), Num(5), Str("1500000"), Str("abc")}),
            e \in Opt("parameters",
                      {Items(<<>>),
                       Items(<<[k |-> "to", v |-> A1], [k |-> "value", v |-> Str("100")],
                               [k |-> "data", v |-> Word]>>),
                       Items(<<[k |-> "recipient", v |-> T1], [k |-> "n", v |-> Num(7)],
                               [k |-> "memo", v |-> A2], [k |-> "to", v |-> A1]>>)})}

\* events that carry a call descriptor, under EventData or at top level
CallEvents ==
    {[ContractType |-> Str("TriggerSmartContract"),
      EventData |-> Obj([smartContract |-> Obj(sc)])] : sc \in CallDescriptors}
    \cup {[ContractType |-> Str("TransferContract"), smartContract |-> Obj(sc)] :
             sc \in CallDescriptors}

InitDecode ==
    /\ active_monitors = <<>>
    /\ tasks = <<>>
    /\ handlers = EmptyBag
    /\ issued = 0
    /\ reply = NoReply
    /\ input \in {[fn |-> "format_event", arg |-> e] :
                       e \in Events \cup AliasEvents \cup CallEvents}
               \cup {[fn |-> "display_smart_contract_info", arg |-> sc] :
                        sc \in CallDescriptors}
               \cup {[fn |-> "format_contract_type", arg |-> tag] : tag \in Tags}
               \cup {[fn |-> "hex_to_tron_address", arg |-> a] :
                        a \in {Text(cs) : cs \in ShortHex \cup AddressInputs} \cup {None, Num(5)}}
    /\ output = NoOutput
    /\ monitor = NoMonitor

\* formatted_msg = format_event(event)
FormatEvent ==
    /\ input.fn = "format_event" /\ output = NoOutput
    /\ output' = format_event(input.arg)
    /\ UNCHANGED <<active_monitors, tasks, handlers, issued, reply, input, monitor>>

\* the value a call returns
Value(x) == [kind |-> "value", lines |-> <<x>>]

\* formatted_type = format_contract_type(contract_type)
FormatContractType ==
    /\ input.fn = "format_contract_type" /\ output = NoOutput
    /\ output' = Value(format_contract_type(input.arg))
    /\ UNCHANGED <<active_monitors, tasks, handlers, issued, reply, input, monitor>>

\* readable = hex_to_tron_address(addr)
HexToTronAddress ==
    /\ input.fn = "hex_to_tron_address" /\ output = NoOutput
    /\ output' = Value(hex_to_tron_address(input.arg))
    /\ UNCHANGED <<active_monitors, tasks, handlers, issued, reply, input, monitor>>

\* self.display_smart_contract_info(smart_contract): "text" with the lines
\* printed, "raise" when a statement raises
DisplaySmartContractInfo ==
    /\ input.fn = "display_smart_contract_info" /\ output = NoOutput
    /\ output' = LET lines == display_smart_contract_info(input.arg)
                  IN  IF Raise \in Range(lines) THEN [kind |-> "raise", lines |-> <<>>]
                      ELSE [kind |-> "text", lines |-> lines]
    /\ UNCHANGED <<active_monitors, tasks, handlers, issued, reply, input, monitor>>

DecodeNext ==
    \/ FormatEvent
    \/ DisplaySmartContractInfo
    \/ FormatContractType
    \/ HexToTronAddress

SpecDecode == InitDecode /\ [][DecodeNext]_vars

\* ------------------------------------------------- claims
TaskIds == 1..Len(tasks)

\* a session task of chat c under key k that has not terminated
LiveKey(tk, c, k) ==
    \E t \in 1..Len(tk) : tk[t].chat = c /\ tk[t].key = k /\ ~Ended(tk, t)

\* a handler ends in this step
Replied == reply' # reply

\* C1: at every moment at most one live session task exists per (owner, key),
\* also when two start commands for the key are handled concurrently.
C1_OneLivePerKey ==
    \A t1, t2 \in TaskIds :
        (/\ ~Ended(tasks, t1) /\ ~Ended(tasks, t2)
         /\ tasks[t1].chat = tasks[t2].chat /\ tasks[t1].key = tasks[t2].key)
        => t1 = t2

\* C2: a stop command that found its session pending or streaming ends by
\* reporting success, never in an unhandled error.
C2_StopSucceeds ==
    (reply.h.cmd = "stop_monitor" /\ reply.h.saw \in {"SubscriptionPending", "Streaming"})
    => reply.h.out = "stopped"

\* C3: in the sequence start, start, stop, start handled one at a time, the first
\* start creates a session, the second, arriving while that session is live, is
\* rejected as a duplicate and creates no task, once the stop has ended the key is
\* absent and its session terminated, and the third start is accepted and creates
\* a new session.
C3_Step ==
    /\ (Replied /\ issued' = 1) =>
           /\ reply'.h.out = "started" /\ Len(tasks') = 1
           /\ LiveKey(tasks', ScenarioChat, "TKfUiqAGByAHv8nmTzZqK3RxNc4p3yPqGf")
    /\ (issued = 1 /\ issued' = 2 /\ LiveKey(tasks, ScenarioChat, "TKfUiqAGByAHv8nmTzZqK3RxNc4p3yPqGf")) =>
           /\ Replied /\ reply'.h.out = "duplicate"
           /\ tasks' = tasks /\ active_monitors' = active_monitors
    /\ (Replied /\ issued' = 3) =>
           /\ ~LiveKey(tasks', ScenarioChat, "TKfUiqAGByAHv8nmTzZqK3RxNc4p3yPqGf")
           /\ ~HasChat(active_monitors', ScenarioChat)
    /\ (issued = 3 /\ issued' = 4) => ~Replied
    /\ (Replied /\ issued' = 4) =>
           /\ reply'.h.out = "started" /\ Len(tasks') = Len(tasks) + 1
           /\ LiveKey(tasks', ScenarioChat, "TKfUiqAGByAHv8nmTzZqK3RxNc4p3yPqGf")
           /\ KeyIn(active_monitors'[ScenarioChat], "TKfUiqAGByAHv8nmTzZqK3RxNc4p3yPqGf")

C3_ScenarioD == [][C3_Step]_vars

\* the whole scenario has run: two tasks, the first one cancelled by the stop
C3_Witness ==
    /\ issued = 4 /\ reply.h.out = "started" /\ reply.h.task = 2
    /\ tasks[1].pc = "cancelled"

\* C4: when stop_all has ended, the registry has no entry for the owner and no
\* session task of that owner is still running.
C4_Step ==
    (Replied /\ reply'.h.cmd = "stop_all" /\ reply'.h.out = "stopped_all")
    => /\ ~HasChat(active_monitors', reply'.h.chat)
       /\ \A t \in 1..Len(tasks') :
              tasks'[t].chat = reply'.h.chat => Ended(tasks', t)

C4_StopAllLeavesNothing == [][C4_Step]_vars

\* C5: a session is never cancelled in the middle of a message: when it ends
\* cancelled, every frame it read has been processed to its end.
C5_ForwardCompletes ==
    \A t \in TaskIds :
        tasks[t].pc = "cancelled" => Len(tasks[t].log) = Len(tasks[t].received)

\* C6: every session that obtained a subscription id has issued a delete request
\* for it by the time it has terminated.
C6_DeleteIssued ==
    \A t \in TaskIds :
        (Ended(tasks, t) /\ tasks[t].subscription_id) => tasks[t].deletes > 0

\* C7: a start rejected as a duplicate and a stop rejected as not found leave the
\* registry and every session task as they were.
C7_Step ==
    (Replied /\ reply'.h.out \in {"duplicate", "not_found"})
    => (active_monitors' = active_monitors /\ tasks' = tasks)

C7_RejectionChangesNothing == [][C7_Step]_vars

\* a start has just been rejected while the session under its key is running
C7_Witness ==
    /\ reply.h.out = "duplicate"
    /\ \E t \in TaskIds : tasks[t].key = reply.h.key /\ Running(tasks, t)
    /\ Monitoring(active_monitors, reply.h.chat, reply.h.key)

\* C8: a session whose subscription creation failed never opens a stream, is in
\* state Failed (Closed if it is cancelled meanwhile), sends at most one failure
\* notification and exactly one when it ends failed; the step that ends it
\* leaves its key absent from the registry.
C8_State ==
    \A t \in TaskIds :
        tasks[t].failure = "create" =>
            /\ ~tasks[t].streamed
            /\ State(tasks, t) \in {"Failed", "Closed"}
            /\ tasks[t].notified = (IF tasks[t].pc = "failed" THEN 1 ELSE 0)

C8_Step ==
    \A t \in TaskIds :
        (tasks[t].failure = "create" /\ ~Ended(tasks, t) /\ Ended(tasks', t))
        => \/ ~HasChat(active_monitors', tasks[t].chat)
           \/ ~KeyIn(active_monitors'[tasks[t].chat], tasks[t].key)

C9_State ==
    \A t \in TaskIds :
        tasks[t].failure = "stream_error" =>
            /\ State(tasks, t) \in {"Failed", "Closed"}
            /\ tasks[t].notified = (IF tasks[t].pc = "failed" THEN 1 ELSE 0)

C9_Step ==
    /\ \A t \in TaskIds :
         /\ (tasks[t].failure = "none" /\ tasks'[t].failure = "stream_error")
            => (State(tasks, t) = "Streaming" /\ State(tasks', t) = "Failed")
         /\ (tasks[t].failure = "stream_error" /\ ~Ended(tasks, t) /\ Ended(tasks', t))
            => \/ ~HasChat(active_monitors', tasks[t].chat)
               \/ ~KeyIn(active_monitors'[tasks[t].chat], tasks[t].key)
    /\ Len(tasks') # Len(tasks) => (Replied /\ reply'.h.out = "started")

Passing(t) ==
    SelectSeq(tasks[t].received,
              LAMBDA f : Process(tasks[t].cmd = "monitor_sc", f) = "send")

\* the received frames whose processing ended with the message sent
Sent(t) ==
    LET idx == SelectSeq([i \in 1..Len(tasks[t].log) |-> i],
                         LAMBDA i : tasks[t].log[i] = "sent")
    IN  [j \in 1..Len(idx) |-> tasks[t].received[idx[j]]]

\* C10 as stated: whenever no forward is in flight, the forwarded sequence is the
\* sequence of received frames that pass the filter and decode to a message.
C10_NothingDropped ==
    \A t \in TaskIds : tasks[t].pc # "forward" => tasks[t].forwarded = Passing(t)

\* C10 amended: frames are processed one at a time in the order received (at most
\* the last frame read is unprocessed, and only while it is being forwarded or
\* after the session was cancelled during that forward); a frame that does not
\* pass is logged, a frame that passes is either sent or its forward raised; the
\* forwarded sequence is exactly the sent frames, in order, each once.
C10_InOrder ==
    \A t \in TaskIds :
        LET r == tasks[t].received
            lg == tasks[t].log
            filter_sc == tasks[t].cmd = "monitor_sc"
        IN  /\ Len(r) - Len(lg) \in {0, 1}
            /\ tasks[t].pc = "forward" => Len(r) = Len(lg) + 1
            /\ Len(r) = Len(lg) + 1 =>
                   /\ tasks[t].pc \in {"forward", "cancelled"}
                   /\ Process(filter_sc, Last(r)) = "send"
            /\ \A i \in 1..Len(lg) :
                   IF Process(filter_sc, r[i]) = "send"
                   THEN lg[i] \in {"sent", "error"}
                   ELSE lg[i] = Process(filter_sc, r[i])
            /\ tasks[t].forwarded = Sent(t)

\* three frames read, two different events forwarded in the order received
C10_Witness ==
    \E t \in TaskIds :
        /\ Len(tasks[t].received) = 3 /\ tasks[t].pc = "recv"
        /\ tasks[t].forwarded = <<tasks[t].received[1], tasks[t].received[3]>>
        /\ tasks[t].received[1] # tasks[t].received[3]

\* C11: a frame that is not JSON, a decode that raises and a forward that raises
\* each skip only that message: the step that logs the failure leaves the session
\* Streaming at the read of the next message and leaves the registry, which holds
\* the session's key, unchanged.
C11_Step ==
    \A t \in TaskIds :
        (/\ Len(tasks'[t].log) = Len(tasks[t].log) + 1
         /\ Last(tasks'[t].log) \in {"bad_json", "error"})
        => /\ State(tasks', t) = "Streaming" /\ tasks'[t].pc = "recv"
           /\ tasks'[t].failure = "none"
           /\ active_monitors' = active_monitors
           /\ Monitoring(active_monitors', tasks[t].chat, tasks[t].key)
           /\ tasks'[t].forwarded = tasks[t].forwarded

C11_BadMessageSkipped == [][C11_Step]_vars

\* a frame that is not JSON, then an event whose forward raised, then an event that
\* was forwarded, by a session still in the registry
C11_Witness ==
    \E t \in TaskIds :
        /\ tasks[t].log = <<"bad_json", "error", "sent">>
        /\ Process(tasks[t].cmd = "monitor_sc", tasks[t].received[2]) = "send"
        /\ Monitoring(active_monitors, tasks[t].chat, tasks[t].key)

\* the registry entries that do not point at task t are the same in am and am2
SiblingsKept(am, am2, t) ==
    /\ \A c \in DOMAIN am : \A j \in 1..Len(am[c]) :
           am[c][j].task # t =>
               (c \in DOMAIN am2 /\ \E i \in 1..Len(am2[c]) : am2[c][i] = am[c][j])
    /\ \A c \in DOMAIN am2 :
           c \in DOMAIN am /\ \A i \in 1..Len(am2[c]) :
               \E j \in 1..Len(am[c]) : am[c][j] = am2[c][i]

\* C12: the step in which a session fails or terminates changes no other session
\* task and no registry entry of another session: entries are only removed, every
\* entry that points at another session is kept, and with it its owner's entry.
C12_Step ==
    \A t \in TaskIds :
        (~Ended(tasks, t) /\ Ended(tasks', t))
        => /\ \A u \in TaskIds \ {t} : tasks'[u] = tasks[u]
           /\ SiblingsKept(active_monitors, active_monitors', t)

C12_SiblingsUntouched == [][C12_Step]_vars

\* C13: a session whose stream is or was open holds a subscription id, and the
\* step that opens the stream is taken by a session that waited for the stream
\* with the id the creation request returned.
C13_State ==
    \A t \in TaskIds :
        (tasks[t].streamed \/ State(tasks, t) = "Streaming") => tasks[t].subscription_id

C13_Step ==
    \A t \in TaskIds :
        (~tasks[t].streamed /\ tasks'[t].streamed)
        => (tasks[t].pc = "connect" /\ tasks[t].subscription_id /\ tasks[t].failure = "none")

C13_StreamNeedsSubscription == []C13_State /\ [][C13_Step]_vars

\* a session is reading its stream
C13_Witness ==
    \E t \in TaskIds :
        tasks[t].pc = "recv" /\ tasks[t].streamed /\ tasks[t].subscription_id

\* C14: the registry never holds an owner entry with an empty session map.
C14_NoEmptyOwner ==
    \A c \in DOMAIN active_monitors : Len(active_monitors[c]) > 0

\* an owner had two sessions; one of them ended and the owner's entry holds the other
C14_Witness ==
    \E c \in DOMAIN active_monitors :
        /\ Len(active_monitors[c]) = 1
        /\ \E t \in TaskIds :
               /\ tasks[t].chat = c /\ tasks[t].pc \in {"done", "failed"}
               /\ tasks[t].key # active_monitors[c][1].key

\* the order of the keys `new` keeps the order of those of `old` that are left,
\* and the keys that were not in `old` come after them
OrderKept(old, new) ==
    LET kept == SelectSeq(old, LAMBDA k : k \in Range(new))
    IN  /\ Len(new) >= Len(kept)
        /\ SubSeq(new, 1, Len(kept)) = kept
        /\ \A i \in Len(kept) + 1..Len(new) : new[i] \notin Range(old)

\* C15: the list command returns the owner's registered keys in the order of the
\* registry, and every step keeps that order: the keys that stay keep their
\* relative order and a key that is stored, for the first time or again after it
\* was removed, comes after all keys that stayed.
C15_Step ==
    /\ \A c \in DOMAIN active_monitors :
           c \in DOMAIN active_monitors' =>
               OrderKept(DictKeys(active_monitors[c]), DictKeys(active_monitors'[c]))
    /\ \A c \in DOMAIN active_monitors' :
           c \notin DOMAIN active_monitors => Len(active_monitors'[c]) = 1
    /\ (Replied /\ reply'.h.cmd = "list") =>
           /\ active_monitors' = active_monitors
           /\ IF reply'.h.out = "listed"
              THEN reply'.h.keys = DictKeys(active_monitors[reply'.h.chat])
              ELSE ~HasChat(active_monitors, reply'.h.chat)

C15_ListInStartOrder == [][C15_Step]_vars

\* the plain monitor was started first, then the smart-contract monitor; the plain
\* one was stopped and started again, and the list shows it last
C15_Witness ==
    /\ reply.h.cmd = "list" /\ reply.h.keys = <<"TKfUiqAGByAHv8nmTzZqK3RxNc4p3yPqGf_SC", "TKfUiqAGByAHv8nmTzZqK3RxNc4p3yPqGf">>
    /\ Len(tasks) = 3
    /\ tasks[1].key = "TKfUiqAGByAHv8nmTzZqK3RxNc4p3yPqGf" /\ tasks[1].pc = "cancelled"
    /\ tasks[2].key = "TKfUiqAGByAHv8nmTzZqK3RxNc4p3yPqGf_SC" /\ tasks[3].key = "TKfUiqAGByAHv8nmTzZqK3RxNc4p3yPqGf"

\* C16: when the shutdown sequence has ended it has ended without an error, and
\* every session task it found in the registry has terminated.
C16_Step ==
    (Replied /\ reply'.h.cmd = "shutdown")
    => /\ reply'.h.out = "closed"
       /\ \A t \in reply'.h.seen : Ended(tasks', t)

C16_ShutdownCompletes == [][C16_Step]_vars

\* the event has been decoded
Decoded == input.fn = "format_event" /\ output # NoOutput

\* C17: for every object the decoder returns null or a message; it never raises.
C17_NeverThrows == Decoded => output.kind \in {"None", "text"}

\* C18: the decoder returns null, and the read loop forwards nothing, for a
\* payload without any of the data keys, and returns a message for a payload
\* with at least one of them.
C18_NullIffNoData ==
    Decoded =>
        IF DOMAIN input.arg \cap DataKeys = {}
        THEN /\ output.kind = "None"
             /\ Process(FALSE, [json |-> TRUE, event |-> input.arg]) = "empty"
        ELSE output.kind = "text"

\* C19: when Amount holds a string, the decoder still returns a message, and the
\* message shows that string as the amount.
C19_RawAmount ==
    (/\ Decoded
     /\ DOMAIN input.arg \cap DataKeys # {}
     /\ Get(input.arg, "Amount").t = "str")
    => /\ output.kind = "text"
       /\ \E i \in 1..Len(output.lines) :
              output.lines[i] = Line("Amount", input.arg.Amount)

\* C20: with the smart-contract filter on, every event the filter suppresses has
\* been passed through the decoder.
C20_DecodedBeforeFilter ==
    \A t \in TaskIds :
        \A i \in 1..Len(tasks[t].log) :
            tasks[t].log[i] = "skipped" => tasks[t].received[i] \in Range(tasks[t].decoded)

\* the first of the keys that the payload holds with a truthy value, "" if none
RECURSIVE FirstTruthy(_, _)
FirstTruthy(event, keys) ==
    IF keys = <<>> THEN ""
    ELSE IF Truthy(Get(event, Head(keys))) THEN Head(keys)
    ELSE FirstTruthy(event, Tail(keys))

\* the first of the keys that the payload holds, "" if none
RECURSIVE FirstPresent(_, _)
FirstPresent(event, keys) ==
    IF keys = <<>> THEN ""
    ELSE IF Head(keys) \in DOMAIN event THEN Head(keys)
    ELSE FirstPresent(event, Tail(keys))

\* the line a field has in the message when the value v is used for it
FieldLine(f, v) ==
    CASE f = "Block" -> format_block_link(v)
      [] f = "TX" -> format_tx_link(v)
      [] f = "From" -> format_address_link("From", v)
      [] f = "To" -> format_address_link("To", v)
      [] f = "Amount" -> Line("Amount", Trx(v.v))
      [] OTHER -> Line("Type", format_contract_type(v))

\* the lines of the message that carry the field
FieldLines(f) ==
    {output.lines[i] : i \in {j \in 1..Len(output.lines) : output.lines[j].l = f}}

\* the message shows the field with the value under the key k, and does not
\* show it when k is no key
UsesKey(f, k) ==
    IF k = "" THEN FieldLines(f) = {}
    ELSE FieldLines(f) = {FieldLine(f, input.arg[k])}

\* C21 as amended: for each field the keys are tried in the fixed order and the
\* value shown is that of the first key whose value is truthy; a key present
\* with null, zero or the empty string is passed over, and the field is left
\* out when no key has a truthy value.
C21_FirstTruthyAlias ==
    (Decoded /\ output.kind = "text") =>
        \A f \in DOMAIN FieldAliases : UsesKey(f, FirstTruthy(input.arg, FieldAliases[f]))

\* C21 as stated: the value shown is that of the first key present in the
\* payload, whatever that value is.
C21_FirstPresentAlias ==
    (Decoded /\ output.kind = "text") =>
        \A f \in DOMAIN FieldAliases :
            LET k == FirstPresent(input.arg, FieldAliases[f])
            IN  FieldLines(f) # {} => (k # "" /\ UsesKey(f, k))

\* an empty From next to a from: the message shows the value of from
C21_Witness ==
    /\ Decoded /\ output.kind = "text"
    /\ DOMAIN input.arg = {"From", "from", "To"}
    /\ input.arg.From = Str("") /\ input.arg["from"] = Str("f2")
    /\ FieldLines("From") = {Line("From", Str("f2"))}

\* the contract type of the decoded event is a tag that is not in the table
UnknownTag ==
    LET k == FirstTruthy(input.arg, FieldAliases.Type)
    IN  /\ Decoded
        /\ k # ""
        /\ input.arg[k].t = "str"
        /\ input.arg[k].v \notin DOMAIN type_mapping

\* C28: a tag of the table is given its label of the table, every other tag
\* the generic label, which ends with the raw tag; a payload with a tag that
\* is not in the table is decoded as it is with a tag of the table, and its
\* message shows the generic label.
C28_LabellingTotal ==
    /\ (input.fn = "format_contract_type" /\ output # NoOutput) =>
           output = Value(IF input.arg.t = "str" /\ input.arg.v \in DOMAIN type_mapping
                          THEN Str(type_mapping[input.arg.v])
                          ELSE Str(GenericPrefix \o Rendered(input.arg)))
    /\ UnknownTag =>
           LET k == FirstTruthy(input.arg, FieldAliases.Type)
               known == [input.arg EXCEPT ![k] = Str("TransferContract")]
           IN  /\ output.kind = format_event(known).kind
               /\ output.kind = "text" =>
                      FieldLines("Type") = {Line("Type", Str(GenericPrefix \o input.arg[k].v))}

\* an event with the tag MintContract has been decoded to a message
C28_Witness ==
    /\ UnknownTag
    /\ output.kind = "text"
    /\ Line("Type", Str("Doc MintContract")) \in Range(output.lines)

\* hex_to_tron_address has returned for a string
HexCall == input.fn = "hex_to_tron_address" /\ output # NoOutput /\ input.arg.t = "text"

\* the string returned is the one of the except branch
ConversionFailed == " (conversion failed: " \in Range(output.lines[1].v)

\* sub is a part of s
Contains(s, sub) == \E i \in 0..(Len(s) - Len(sub)) : SubSeq(s, i + 1, i + Len(sub)) = sub

\* C25: when the conversion succeeds the normalized hex has an even number of
\* digits and the raw address starts with the byte 0x41; for a 20-byte or
\* 21-byte address, with or without 0x, 41 and zero padding, the raw address
\* has 21 bytes.
C25_RawAddress ==
    (HexCall /\ ~ConversionFailed) =>
        LET normalized == Normalize(input.arg.v)
            addr_bytes == fromhex(normalized)
        IN  /\ Len(normalized) % 2 = 0
            /\ addr_bytes[1] = 65
            /\ input.arg.v \in AddressInputs => Len(addr_bytes) = 21

\* C26: normalizing the normalized hex gives the same hex, and converting it
\* gives the same result as converting the input.
C26_Idempotent ==
    HexCall =>
        LET normalized == Normalize(input.arg.v)
        IN  /\ Normalize(normalized) = normalized
            /\ Value(hex_to_tron_address(Text(normalized))) = output

\* 0x, a leading zero and an odd number of digits: the input 0x0a was
\* normalized to 041a and converted
C26_Witness ==
    /\ HexCall /\ ~ConversionFailed
    /\ input.arg.v = <<"0", "x", "0", "a">>
    /\ Normalize(input.arg.v) = <<"0", "4", "1", "a">>

\* C27: the conversion returns a string for every input, and the string
\* returned on a failure holds the input as it was passed in and the reason.
C27_FallbackKeepsInput ==
    (input.fn = "hex_to_tron_address" /\ output # NoOutput) =>
        /\ output.kind = "value"
        /\ output.lines[1].t = "text"
        /\ ConversionFailed =>
               /\ Contains(output.lines[1].v,
                           IF input.arg.t = "text" THEN input.arg.v ELSE <<Rendered(input.arg)>>)
               /\ \E e \in {"ValueError", "AttributeError"} :
                      Contains(output.lines[1].v, Failed(e))

\* C29: the text of a raw address a of 21 bytes that starts with 0x41 is the
\* base58 encoding of a followed by the first four bytes of SHA256(SHA256(a)),
\* and decoding the text with its checksum verified gives a.
C29_RoundTrip ==
    (HexCall /\ IsHex(Normalize(input.arg.v))) =>
        LET a == fromhex(Normalize(input.arg.v))
        IN  (Len(a) = 21 /\ a[1] = 65) =>
                /\ output = Value(Text(b58encode(a \o SubSeq(sha256(sha256(a)), 1, 4))))
                /\ fromText(output.lines[1].v) = a

\* the first address of test_address_display.py has been converted
C29_Witness ==
    /\ HexCall /\ ~ConversionFailed
    /\ Len(input.arg.v) = 42
    /\ SubSeq(input.arg.v, 1, 4) = <<"4", "1", "d", "3">>
    /\ Len(fromText(output.lines[1].v)) = 21
    /\ output.lines[1].v[1] = "T"

\* the call descriptor of the input: of an event that carries one, or the
\* argument of display_smart_contract_info
Descriptor ==
    IF input.fn = "display_smart_contract_info" THEN input.arg
    ELSE IF "EventData" \in DOMAIN input.arg THEN input.arg.EventData.v.smartContract.v
    ELSE input.arg.smartContract.v

\* a call descriptor has been decoded, by format_event or by
\* display_smart_contract_info
CallDecoded ==
    /\ output # NoOutput
    /\ \/ input.fn = "display_smart_contract_info"
       \/ input.fn = "format_event" /\ input.arg \in CallEvents

\* the lines of the output with one of the labels, in their order
Labelled(labels) ==
    LET Test(line) == line.l \in labels
    IN  SelectSeq(output.lines, Test)

\* the text form of an address: Base58Check for a hex address of 21 bytes that
\* starts with 41, as hex_to_tron_address gives it
TextForm(addr) ==
    IF addr.t = "str" /\ addr.v \in HexAddresses /\ IsHex(Chars[addr.v])
    THEN hex_to_tron_address(Text(Chars[addr.v]))
    ELSE addr

\* the addresses of the descriptor, none without the key
AddressList == IF "addresses" \in DOMAIN Descriptor THEN Descriptor.addresses.v ELSE <<>>

\* C22: a call descriptor without method name, or with a null one, with a
\* selector and with up to three strings for addresses (longer lists are the
\* matter of C23) is decoded without failure: the result shows the selector,
\* and every hex address of the descriptor in its text form.
C22_UnknownSelector ==
    (/\ CallDecoded
     /\ ~Truthy(Get(Descriptor, "methodName"))
     /\ "methodSignature" \in DOMAIN Descriptor
     /\ Len(AddressList) <= 3
     /\ \A i \in 1..Len(AddressList) : AddressList[i].t = "str")
    => /\ output.kind = "text"
       /\ Labelled({"Method 0x", "Signature 0x"}) # <<>>
       /\ \A line \in Range(Labelled({"Method 0x", "Signature 0x"})) :
              line.v = Descriptor.methodSignature
       /\ LET shown == Labelled({"Param Address", "Address"})
          IN  /\ Len(shown) = Len(AddressList)
              /\ \A i \in 1..Len(shown) :
                     (AddressList[i].v \in HexAddresses /\ IsHex(Chars[AddressList[i].v]))
                     => shown[i].v = TextForm(AddressList[i])

\* the first n elements of a sequence
FirstN(q, n) == SubSeq(q, 1, IF Len(q) < n THEN Len(q) ELSE n)

\* the entries of the parameter mapping format_event shows: the strings
\* shorter than 50 characters
Showable(items) ==
    LET Test(item) == item.v.t = "str" /\ Len(item.v.v) < 50
    IN  SelectSeq(items, Test)

\* the parameters of the descriptor in order, none without the key
ParameterList == IF "parameters" \in DOMAIN Descriptor THEN Descriptor.parameters.v ELSE <<>>

\* an event with a call descriptor has been decoded to a message
CallMessage == CallDecoded /\ input.fn = "format_event" /\ output.kind = "text"

CallAmount == Get(Descriptor, "amount")

\* int(amount) does not raise
Parses(amount) == amount.t = "int" \/ (amount.t = "str" /\ amount.v \in DOMAIN IntText)

\* the value shown is n / 10^6 with six decimals
IsMajor(shown, n) ==
    /\ shown.t = "trx"
    /\ shown.v[2] \in 0..999999
    /\ shown.v[1] * 1000000 + shown.v[2] = n

\* the value shown for the amount: scaled when it parses, raw when it does not
AmountShown(shown) ==
    IF Parses(CallAmount)
    THEN IsMajor(shown, IF CallAmount.t = "int" THEN CallAmount.v ELSE IntText[CallAmount.v])
    ELSE shown = CallAmount

\* the lines of a message but the token amount
Rest(lines) ==
    LET Test(line) == line.l # "Token Amount"
    IN  SelectSeq(lines, Test)

\* C24 as amended: in the message of format_event a non-zero, non-empty amount
\* that parses as an integer n is shown as n / 10^6 whatever the method, and
\* one that does not parse is shown raw with the rest of the message as it is
\* for an amount that parses; display_smart_contract_info does so for transfer,
\* transferFrom and approve, shows no amount for balanceOf and allowance, and
\* shows the raw amount unscaled for every other method.
C24_AmountScaled ==
    /\ (CallMessage /\ Truthy(CallAmount)) =>
           /\ Len(Labelled({"Token Amount"})) = 1
           /\ AmountShown(Labelled({"Token Amount"})[1].v)
           /\ LET parsed == IF "EventData" \in DOMAIN input.arg
                            THEN [input.arg EXCEPT
                                     !.EventData.v.smartContract.v.amount = Num(5)]
                            ELSE [input.arg EXCEPT !.smartContract.v.amount = Num(5)]
              IN  Rest(output.lines) = Rest(format_event(parsed).lines)
    /\ (/\ CallDecoded /\ input.fn = "display_smart_contract_info"
        /\ output.kind = "text" /\ Truthy(CallAmount)) =>
           LET method_name == IF "methodName" \in DOMAIN Descriptor
                              THEN Descriptor.methodName.v ELSE "Unknown"
               shown == Labelled({"Amount", "Allowance"})
           IN  IF method_name \in {"transfer(address,uint256)",
                                   "transferFrom(address,address,uint256)",
                                   "approve(address,uint256)"}
               THEN Len(shown) = 1 /\ AmountShown(shown[1].v)
               ELSE IF method_name \in {"balanceOf(address)", "allowance(address,address)"}
               THEN shown = <<>>
               ELSE shown = <<Line("Amount", CallAmount)>>

\* C24 as stated: an amount that parses as an integer n is shown as n / 10^6
\* whatever the method.
C24_WhateverTheMethod ==
    (CallDecoded /\ output.kind = "text" /\ "amount" \in DOMAIN Descriptor /\ Parses(CallAmount)) =>
        \E line \in Range(Labelled({"Token Amount", "Amount", "Allowance"})) :
            AmountShown(line.v)

\* the amount "1500000" of a call of mint was shown as 1.500000
C24_Witness ==
    /\ CallMessage
    /\ Get(Descriptor, "methodName") = Str("mint(address)")
    /\ CallAmount = Str("1500000")
    /\ Labelled({"Token Amount"}) = <<Line("Token Amount", [t |-> "trx", v |-> <<1, 500000>>])>>

\* the message is a smart contract interaction: its contract type, under
\* ContractType or else contractType, is TriggerSmartContract, or it has a
\* call descriptor that is not empty under EventData or at top level
SmartContractMessage(event) ==
    LET k == FirstTruthy(event, <<"ContractType", "contractType">>)
        nested == IF "EventData" \in DOMAIN event
                  THEN Get(event.EventData.v, "smartContract") ELSE None
    IN  \/ k # "" /\ event[k] = Str("TriggerSmartContract")
        \/ Truthy(nested)
        \/ Truthy(Get(event, "smartContract"))

\* C30: a session started by /monitor_sc forwards, and has in flight to the
\* owner, only smart contract interactions; every other parsed message is
\* logged as skipped.
C30_OnlySmartContracts ==
    \A t \in TaskIds :
        tasks[t].cmd = "monitor_sc" =>
            /\ \A f \in Range(tasks[t].forwarded) : SmartContractMessage(f.event)
            /\ tasks[t].pc = "forward" => SmartContractMessage(Last(tasks[t].received).event)
            /\ \A i \in 1..Len(tasks[t].log) :
                   (tasks[t].received[i].json /\ ~SmartContractMessage(tasks[t].received[i].event))
                   => tasks[t].log[i] = "skipped"

\* a /monitor_sc session has skipped a transfer and forwarded a transfer that
\* carries a call descriptor at top level
C30_Witness ==
    \E t \in TaskIds :
        /\ tasks[t].cmd = "monitor_sc"
        /\ [json |-> TRUE, event |-> FilterEvents.top] \in Range(tasks[t].forwarded)
        /\ \E i \in 1..Len(tasks[t].log) :
               tasks[t].received[i].event = TransferEvent /\ tasks[t].log[i] = "skipped"

\* the address does not start with T or is not 34 characters long
Malformed(address) == SubSeq(address, 1, 1) # "T" \/ Len(address) # 34

\* C31: a /monitor or /monitor_sc command with a malformed address ends with
\* the invalid-format reply; no handler goes on to create a task for it and no
\* task or registry entry exists for it.
C31_InvalidRejected ==
    /\ (Checked(reply.h.cmd) /\ Malformed(reply.h.arg)) => reply.h.out = "invalid"
    /\ \A h \in BagToSet(handlers) : Checked(h.cmd) => ~Malformed(h.arg)
    /\ \A t \in 1..Len(tasks) :
           Checked(tasks[t].cmd) =>
               \E a \in StartArgs : ~Malformed(a) /\ tasks[t].key = StartKey(tasks[t].cmd, a)

\* the handler of a new command or a resumed one ends in this step
EndsNow == reply' # reply

\* C32: a start request is rejected as a duplicate only of a session of the same
\* mode and target, and a stop command for a target that a start accepts cancels
\* only a session of that target: requests that differ in target or mode do not
\* share a key.
C32_Step ==
    /\ (EndsNow /\ reply'.h.cmd \in StartCmds /\ reply'.h.out = "duplicate") =>
           LET t == Lookup(active_monitors[reply'.h.chat], reply'.h.key)
           IN  tasks[t].cmd = reply'.h.cmd
    /\ \A t \in 1..Len(tasks) :
           (tasks'[t].must_cancel /\ ~tasks[t].must_cancel) =>
               \A h \in BagToSet(handlers') \ BagToSet(handlers) :
                   (h.cmd = "stop_monitor" /\ ~InvalidFormat(h.arg)) =>
                       tasks[t].key = StartKey(tasks[t].cmd, h.arg)

C32_DistinctKeys == [][C32_Step]_vars

\* no start or stop operation is in progress
Quiescent == \A h \in BagToSet(handlers) : h.cmd \notin StartCmds \cup {"stop_monitor", "stop_all"}

\* the task the registry holds under key k of chat c, NoTask when there is none
Registered(c, k) ==
    IF Monitoring(active_monitors, c, k) THEN Lookup(active_monitors[c], k) ELSE NoTask

\* C33: while no start or stop operation is in progress, every session task
\* that has not terminated is the one the registry holds under its key, and
\* every task the registry holds has not terminated.
C33_RegistryIffLive ==
    Quiescent =>
        /\ \A t \in 1..Len(tasks) :
               ~Ended(tasks, t) => Registered(tasks[t].chat, tasks[t].key) = t
        /\ \A c \in DOMAIN active_monitors : \A j \in 1..Len(active_monitors[c]) :
               ~Ended(tasks, active_monitors[c][j].task)

\* the entries of the registry am, as [chat, key, task]
Entries(am) ==
    UNION {{[chat |-> c, key |-> am[c][j].key, task |-> am[c][j].task] :
               j \in 1..Len(am[c])} : c \in DOMAIN am}

\* C34: in the step in which a session task terminates, every registry entry
\* that disappears refers to that task.
C34_Step ==
    \A t \in TaskIds :
        (~Ended(tasks, t) /\ Ended(tasks', t)) =>
            \A e \in Entries(active_monitors) \ Entries(active_monitors') : e.task = t

C34_RemovesOwnEntry == [][C34_Step]_vars

\* the registry holds a task under key k of chat c that has not terminated
LiveUnder(c, k) == Registered(c, k) # NoTask /\ ~Ended(tasks, Registered(c, k))

\* the handler h of a new /stop_monitor command has run its first step
StopHandled(h) ==
    /\ issued' = issued + 1 /\ h.cmd = "stop_monitor"
    /\ \/ CopiesIn(h, handlers') > CopiesIn(h, handlers)
       \/ reply' # reply /\ reply'.h = h

\* the task u and its registry entry are as they were
Untouched(u) ==
    /\ tasks'[u] = tasks[u]
    /\ Entries(active_monitors') \cap {e \in Entries(active_monitors) \cup Entries(active_monitors') : e.task = u}
           = {e \in Entries(active_monitors) : e.task = u}

\* C35: a stop command for an address with a plain and a smart-contract-only
\* session cancels the plain session and leaves the other session and its
\* entry as they were; when that stop ends the plain key is gone and the other
\* session is still untouched by it; a stop command for an address that has
\* only the smart-contract-only session cancels that one.
C35_Step ==
    /\ \A h \in BagToSet(handlers') \cup {reply'.h} :
           (StopHandled(h) /\ h.arg \in Addresses /\ LiveUnder(h.chat, ScKey(h.arg))) =>
               LET sc == Registered(h.chat, ScKey(h.arg))
                   plain == Registered(h.chat, h.arg)
               IN  IF LiveUnder(h.chat, h.arg)
                   THEN /\ h.key = h.arg /\ h.task = plain
                        /\ tasks'[plain].must_cancel
                        /\ Untouched(sc)
                   ELSE plain = NoTask =>
                            /\ h.key = ScKey(h.arg) /\ h.task = sc
                            /\ tasks'[sc].must_cancel
    /\ (EndsNow /\ reply'.h.cmd = "stop_monitor" /\ reply'.h.key = reply'.h.arg) =>
           /\ Ended(tasks', reply'.h.task)
           /\ ~Monitoring(active_monitors', reply'.h.chat, reply'.h.arg)
           /\ \A u \in TaskIds : tasks[u].key = ScKey(reply'.h.arg) => Untouched(u)

C35_PlainThenSc == [][C35_Step]_vars

\* the sessions were started smart-contract-only first, the plain one second;
\* both have been cancelled, and the stop that ended last stopped the
\* smart-contract-only session
C35_Witness ==
    /\ Len(tasks) = 2 /\ issued = 4 /\ handlers = EmptyBag
    /\ tasks[1].cmd = "monitor_sc" /\ tasks[2].cmd = "monitor"
    /\ tasks[1].key = ScKey(tasks[2].key)
    /\ tasks[1].pc = "cancelled" /\ tasks[2].pc = "cancelled"
    /\ reply.h.cmd = "stop_monitor" /\ reply.h.task = 1 /\ reply.h.key = tasks[1].key

\* C36: when the monitor process has terminated and a subscription had been
\* created, a delete request for it has been issued.
C36_DeleteBeforeExit ==
    (monitor.pc = "exit" /\ monitor.subscription_id) => monitor.deletes >= 1

\* C37: with no shutdown signal, run() leaves its monitoring loop for the
\* teardown only when the socket has closed.
C37_Step ==
    (monitor.pc = "loop" /\ monitor'.pc = "stop" /\ monitor'.signals = monitor.signals)
    => monitor.sock = "closed"

C37_StaysInLoop == [][C37_Step]_vars

\* C38: the WebSocket close and the delete request are each issued at most
\* once, and a stop() call that finds the monitor already stopped returns with
\* nothing closed, deleted or set.
C38_Step ==
    /\ monitor'.closes <= 1 /\ monitor'.deletes <= 1
    /\ (monitor.pc = "stop" /\ monitor.stopped) =>
           /\ monitor'.pc \in {"stop", "exit"}
           /\ monitor'.closes = monitor.closes /\ monitor'.deletes = monitor.deletes
           /\ monitor'.stopped /\ monitor'.ws = monitor.ws
           /\ monitor'.subscription_id = monitor.subscription_id

C38_StopOnce == [][C38_Step]_vars

\* the signal handler stopped an open monitor and the finally block of run()
\* called stop() again: one close, one delete, the process has ended
C38_Witness ==
    /\ monitor.pc = "exit" /\ monitor.calls >= 2 /\ monitor.signals = 1
    /\ monitor.closes = 1 /\ monitor.deletes = 1

\* the message is an event or a transaction event
Counted(message) ==
    /\ message.json /\ message.data.t = "obj"
    /\ LET type == Get(message.data.v, "type")
       IN  \/ type = Str("event")
           \/ /\ type \notin {Str("connected"), Str("event"), Str("error")}
              /\ {"TransactionID", "TransactionHash"} \cap DOMAIN message.data.v # {}

\* C39: a received message adds one to the event counter when it is an event
\* or a transaction event and nothing otherwise; no other step changes the
\* counter.
C39_Step ==
    IF monitor'.frames = monitor.frames + 1
    THEN monitor'.event_count =
             monitor.event_count + (IF Counted(monitor'.last) THEN 1 ELSE 0)
    ELSE monitor'.event_count = monitor.event_count

C39_CountsEvents == [][C39_Step]_vars

\* an event and a transaction event have been counted, and the acknowledgement
\* that came last, with a transaction hash, has not
C39_Witness ==
    /\ monitor.frames = 3 /\ monitor.event_count = 2
    /\ monitor.last = [json |-> TRUE,
                       data |-> Obj([type |-> Str("connected"), TransactionHash |-> Str("tx1")])]

====
